---- MODULE Spec2Model ----
(***************************************************************************)
(* A model of the process list of go-mysql-server (src/processlist.go).   *)
(*                                                                         *)
(* The process list is two Go maps guarded by one sync.RWMutex:            *)
(*   procs      connection id -> *sql.Process                              *)
(*   byQueryPid query pid     -> connection id                             *)
(* A *sql.Process holds two references: Kill, the cancel function of the   *)
(* context made by BeginQuery, and Progress, a Go map.  Both are modelled  *)
(* as addresses (0 is nil) into two heaps, `contexts` and `progressMaps`,  *)
(* so that aliasing (the struct copies made by Processes) is visible.      *)
(* `contexts` holds the contexts that are not done: a context that was     *)
(* cancelled stays done for ever, so it is an address that `contexts` no   *)
(* longer has.  `progressMaps` holds the maps that are still referred to.  *)
(* An address is used again only when nothing refers to it any more.       *)
(* A TableProgress value holds its PartitionsProgress map; that map is     *)
(* made by NewTableProgress, is reachable only through the one map slot    *)
(* the TableProgress is stored in, and is therefore kept inside the slot.  *)
(* StartedAt (time.Now()) is written but never read by the process list    *)
(* and is left out.                                                        *)
(***************************************************************************)
EXTENDS Integers, Sequences, FiniteSets, TLC

\* ------------------------------------------------------------------ bounds
MaxConn == 2
MaxPid == 1
MaxCtx == 2
MaxDone == 2
MaxTotal == 1
MaxProgressPid == 2
MaxThreads == 2
MaxVal == 2
MaxRows == 2
MaxCalls == 4
MaxCloses == 2
HashSpace == 2
MaxProj == 3
MaxExprs == 2
MaxChildren == 2
MaxLockConns == 2
MaxLocks == 3
MaxDepth == 3

Conns == 1..MaxConn
\* ctx.Pid() is a uint64; 0 is the pid of a context that was given none
Pids == 0..MaxPid
Tables == {"a"}
Parts == {"a-1"}
Deltas == {1}
Totals == 1..MaxTotal
Addrs == {"127.0.0.1:34567"}
Users == {"foo"}
Queries == {"SELECT foo"}

VARIABLES
  procs,         \* pl.procs
  byQueryPid,    \* pl.byQueryPid
  contexts,      \* heap of the contexts made by BeginQuery that are not done
  progressMaps,  \* heap of the Progress maps made by BeginQuery
  snap,          \* the slice returned by the last call of Processes()
  keeps,         \* whether the caller of Processes() keeps the slice while
                 \* other calls are made, or drops it before the next call
  sent,          \* what the executor sent for each pid that a process runs
                 \* as its query, since that query began: per table, the sum
                 \* of the deltas of UpdateTableProgress and the total of the
                 \* last AddTableProgress (-1 when there was none)
  open,          \* the contexts that a BeginQuery returned, that are not done
                 \* and that no EndQuery was called with since: of each, the
                 \* session and the pid it holds
  last           \* the last call: its name, arguments and outcome, and what
                 \* it found: the process it addressed (was), the connection
                 \* its pid was registered to (owner), whether that process
                 \* had progress, the table and the partition

plVars == <<procs, byQueryPid, contexts, progressMaps, snap, keeps, sent, open, last>>

VARIABLES
  mu,            \* pl.mu: the thread that holds it as a writer (w, Nil when
                 \* none does) and the threads that hold it as readers (r)
  threads,       \* of every thread: the operation it is in, its arguments,
                 \* its local variables and the statement it is at (pc)
  serial         \* the state the operations that have returned make when
                 \* they run one after the other, in the order they returned

muVars == <<mu, threads, serial>>

VARIABLES
  gb             \* a GroupBy iterator, its child, its context and the cache
                 \* it got from the memory manager, with what its calls of
                 \* Next (returned) and of Close (closed) returned

VARIABLES
  rg             \* a run of the rule resolveGenerators: the plan given to it
                 \* (plan), that plan as it is after the call (input), and the
                 \* node and the error returned

VARIABLES
  nd,            \* a plan node or an expression, the last method called on it, the
                 \* arguments of the call and what it returned
  lt,            \* a session that runs LOCK TABLES and UNLOCK TABLES, and the
                 \* calls of Lock and Unlock every table has had
  co             \* a CALL of nested procedures with AS OF clauses, and the
                 \* snapshot every table read inside it used

stmtVars == <<nd, lt, co>>

vars == <<plVars, muVars, gb, rg, stmtVars>>

\* ------------------------------------------------------------ Go map helpers
Nil == 0

Put(m, k, v) == [x \in (DOMAIN m) \cup {k} |-> IF x = k THEN v ELSE m[x]]

Delete(m, k) == [x \in (DOMAIN m) \ {k} |-> m[x]]

EmptyMap == [x \in {} |-> 0]

\* ------------------------------------------------------------ sql.Process
ProcessCommandConnect == "Connect"
ProcessCommandSleep == "Sleep"
ProcessCommandQuery == "Query"

\* the process a nil *sql.Process stands for in `last`
NoProcess ==
  [Connection |-> 0, Command |-> "nil", Host |-> "", User |-> "", Query |-> "",
   QueryPid |-> 0, Kill |-> Nil, Progress |-> Nil]

\* sql.NewTableProgress(name, total)
NewTableProgress(name, total) ==
  [Name |-> name, Done |-> 0, Total |-> total, PartitionsProgress |-> EmptyMap]

\* sql.PartitionProgress{Progress: sql.Progress{Name: name, Total: total}}
NewPartitionProgress(name, total) ==
  [Name |-> name, Done |-> 0, Total |-> total]

\* ------------------------------------------------------------ the Go heap
\* the address of a new object: the first one that nothing refers to
Fresh(used) ==
  CHOOSE a \in 1..(Cardinality(used) + 1) :
    a \notin used /\ \A b \in 1..(a - 1) : b \in used

\* ------------------------------------------------------- context.WithCancel
\* ctx.Err() != nil
Err(cs, q) == q \notin DOMAIN cs

\* k is q or a context derived from q
RECURSIVE DerivedFrom(_, _, _)
DerivedFrom(cs, k, q) ==
  IF k = q THEN TRUE
  ELSE IF k \notin DOMAIN cs \/ cs[k].parent = Nil THEN FALSE
  ELSE DerivedFrom(cs, cs[k].parent, q)

\* (mutant) a cancel function that does nothing
CancelNothing(cs, q) == cs

\* the cancel function of context q: q and every context derived from it is done
Cancel(cs, q) ==
  [k \in {j \in DOMAIN cs : ~DerivedFrom(cs, j, q)} |-> cs[k]]

\* context.WithCancel(parent), at address q: done from birth when its parent
\* is done
WithCancel(cs, q, parent) ==
  IF parent # Nil /\ Err(cs, parent) THEN cs
  ELSE Put(cs, q, [parent |-> parent])

\* ------------------------------------------------------------ the operations
\* Every operation is a function from the state of the process list (and the
\* two heaps, and the slice a caller of Processes() holds) to its next state
\* and its outcome `ret`.
State ==
  [procs |-> procs, byQueryPid |-> byQueryPid, contexts |-> contexts,
   progressMaps |-> progressMaps, snap |-> IF keeps THEN snap ELSE <<>>]

Ret(s, r) ==
  [procs |-> s.procs, byQueryPid |-> s.byQueryPid, contexts |-> s.contexts,
   progressMaps |-> s.progressMaps, snap |-> s.snap, ret |-> r, ctx |-> Nil]

\* the addresses of the contexts and of the maps that something refers to
UsedContexts(s) ==
  ((DOMAIN s.contexts) \cup {s.procs[c].Kill : c \in DOMAIN s.procs}
     \cup {s.snap[i].Kill : i \in DOMAIN s.snap}) \ {Nil}

UsedMaps(s) ==
  ({s.procs[c].Progress : c \in DOMAIN s.procs}
     \cup {s.snap[i].Progress : i \in DOMAIN s.snap}) \ {Nil}

AddConnection(s, id, addr) ==
  [Ret(s, "ok") EXCEPT !.procs = Put(s.procs, id,
     [Connection |-> id, Command |-> ProcessCommandConnect, Host |-> addr,
      User |-> "unauthenticated user", Query |-> "", QueryPid |-> 0,
      Kill |-> Nil, Progress |-> Nil])]

ConnectionReady(s, id, addr, user) ==
  [Ret(s, "ok") EXCEPT !.procs = Put(s.procs, id,
     [Connection |-> id, Command |-> ProcessCommandSleep, Host |-> addr,
      User |-> user, Query |-> "", QueryPid |-> 0,
      Kill |-> Nil, Progress |-> Nil])]

\* (mutant) RemoveConnection without the delete of byQueryPid
UnregisterNothing(b, p) == b

\* delete(pl.byQueryPid, p.QueryPid)
Unregister(b, p) == Delete(b, p.QueryPid)

RemoveConnection(s, connID) ==
  IF connID \in DOMAIN s.procs
  THEN LET p == s.procs[connID] IN
       [Ret(s, "ok") EXCEPT
          !.contexts = IF p.Kill # Nil THEN Cancel(s.contexts, p.Kill) ELSE s.contexts,
          !.byQueryPid = Unregister(s.byQueryPid, p),
          !.procs = Delete(s.procs, connID)]
  ELSE Ret(s, "ok")

\* (mutant) BeginQuery that writes the command and the query of the process
\* before it checks the pid
BeginQueryWritesFirst(s, id, pid, parent, query) ==
  IF id \notin DOMAIN s.procs THEN Ret(s, "ErrNotRegistered")
  ELSE IF pid \in DOMAIN s.byQueryPid
  THEN [Ret(s, "ErrPidAlreadyUsed") EXCEPT
          !.procs = [s.procs EXCEPT ![id] =
                       [@ EXCEPT !.Command = ProcessCommandQuery, !.Query = query]]]
  ELSE LET newCtx == Fresh(UsedContexts(s))
           newMap == Fresh(UsedMaps(s))
       IN [Ret(s, "ok") EXCEPT
             !.contexts = WithCancel(s.contexts, newCtx, parent),
             !.progressMaps = Put(s.progressMaps, newMap, EmptyMap),
             !.procs = [s.procs EXCEPT ![id] =
                          [@ EXCEPT !.Command = ProcessCommandQuery, !.Query = query,
                                    !.QueryPid = pid, !.Kill = newCtx,
                                    !.Progress = newMap]],
             !.byQueryPid = Put(s.byQueryPid, pid, id),
             !.ctx = newCtx]

\* (mutant) BeginQuery without the check of byQueryPid
PidNeverUsed(s, pid) == FALSE

\* _, ok := pl.byQueryPid[pid]
PidUsed(s, pid) == pid \in DOMAIN s.byQueryPid

BeginQuery(s, id, pid, parent, query) ==
  IF id \notin DOMAIN s.procs THEN Ret(s, "ErrNotRegistered")
  ELSE IF PidUsed(s, pid) THEN Ret(s, "ErrPidAlreadyUsed")
  ELSE LET newCtx == Fresh(UsedContexts(s))
           newMap == Fresh(UsedMaps(s))
       IN [Ret(s, "ok") EXCEPT
             !.contexts = WithCancel(s.contexts, newCtx, parent),
             !.progressMaps = Put(s.progressMaps, newMap, EmptyMap),
             !.procs = [s.procs EXCEPT ![id] =
                          [@ EXCEPT !.Command = ProcessCommandQuery, !.Query = query,
                                    !.QueryPid = pid, !.Kill = newCtx,
                                    !.Progress = newMap]],
             !.byQueryPid = Put(s.byQueryPid, pid, id),
             !.ctx = newCtx]

\* (mutant) EndQuery without `p.Kill = nil`
EndedKeepsKill(p) ==
  [p EXCEPT !.Command = ProcessCommandSleep, !.Query = "", !.QueryPid = 0,
            !.Progress = Nil]

\* (mutant) EndQuery without `p.Progress = nil`
EndedKeepsProgress(p) ==
  [p EXCEPT !.Command = ProcessCommandSleep, !.Query = "", !.Kill = Nil,
            !.QueryPid = 0]

\* the fields EndQuery writes to the process of the query that ended
Ended(p) ==
  [p EXCEPT !.Command = ProcessCommandSleep, !.Query = "", !.Kill = Nil,
            !.QueryPid = 0, !.Progress = Nil]

\* p.Kill() on a nil Kill panics after the first two fields were written; the
\* deferred Unlock runs and the writes made so far stay.
EndQuery(s, id, pid) ==
  LET b == Delete(s.byQueryPid, pid) IN
  IF id \in DOMAIN s.procs /\ s.procs[id].QueryPid = pid
  THEN LET p == s.procs[id] IN
       IF p.Kill = Nil
       THEN [Ret(s, "panic") EXCEPT
               !.byQueryPid = b,
               !.procs = [s.procs EXCEPT ![id] =
                            [@ EXCEPT !.Command = ProcessCommandSleep, !.Query = ""]]]
       ELSE [Ret(s, "ok") EXCEPT
               !.byQueryPid = b,
               !.contexts = Cancel(s.contexts, p.Kill),
               !.procs = [s.procs EXCEPT ![id] = Ended(p)]]
  ELSE [Ret(s, "ok") EXCEPT !.byQueryPid = b]

\* (mutant) Kill that also takes the pid of the query out of byQueryPid
KillUnregisters(s, connID) ==
  IF connID \in DOMAIN s.procs /\ s.procs[connID].Kill # Nil
  THEN [Ret(s, "ok") EXCEPT
          !.contexts = Cancel(s.contexts, s.procs[connID].Kill),
          !.byQueryPid = Delete(s.byQueryPid, s.procs[connID].QueryPid)]
  ELSE Ret(s, "ok")

\* (mutant) Kill that logs and does not call p.Kill()
KillOnlyLogs(s, connID) == Ret(s, "ok")

Kill(s, connID) ==
  IF connID \in DOMAIN s.procs /\ s.procs[connID].Kill # Nil
  THEN [Ret(s, "ok") EXCEPT !.contexts = Cancel(s.contexts, s.procs[connID].Kill)]
  ELSE Ret(s, "ok")

\* (mutant) the pid taken for a connection id: procs[pid]
LookupByConnection(s, pid) ==
  IF pid \in DOMAIN s.procs THEN s.procs[pid] ELSE NoProcess

\* id, ok := pl.byQueryPid[pid]; p, ok := pl.procs[id]: the process a progress
\* operation works on, NoProcess when either lookup fails
Lookup(s, pid) ==
  IF pid \in DOMAIN s.byQueryPid /\ s.byQueryPid[pid] \in DOMAIN s.procs
  THEN s.procs[s.byQueryPid[pid]]
  ELSE NoProcess

\* p.Progress[name] = v; an assignment to an entry of a nil map panics
SetProgress(s, p, name, v) ==
  IF p.Progress = Nil THEN Ret(s, "panic")
  ELSE [Ret(s, "ok") EXCEPT !.progressMaps[p.Progress] = Put(@, name, v)]

\* the map p.Progress refers to; reading a nil map finds no entry
ProgressOf(s, p) ==
  IF p.Progress = Nil THEN EmptyMap ELSE s.progressMaps[p.Progress]

\* (mutant) `=` for `+=`
SetDone(pg, delta) == [pg EXCEPT !.Done = delta]

\* progress.Done += delta
AddDone(pg, delta) == [pg EXCEPT !.Done = @ + delta]

UpdateTableProgress(s, pid, name, delta) ==
  LET p == Lookup(s, pid) IN
  IF p = NoProcess THEN Ret(s, "return")
  ELSE LET m == ProgressOf(s, p)
           progress == IF name \in DOMAIN m THEN m[name] ELSE NewTableProgress(name, -1)
       IN SetProgress(s, p, name, AddDone(progress, delta))

UpdatePartitionProgress(s, pid, tableName, partitionName, delta) ==
  LET p == Lookup(s, pid) IN
  IF p = NoProcess THEN Ret(s, "return")
  ELSE LET m == ProgressOf(s, p) IN
       IF tableName \notin DOMAIN m THEN Ret(s, "return")
       ELSE LET tablePg == m[tableName]
                partitionPg ==
                  IF partitionName \in DOMAIN tablePg.PartitionsProgress
                  THEN tablePg.PartitionsProgress[partitionName]
                  ELSE NewPartitionProgress(partitionName, -1)
            IN SetProgress(s, p, tableName,
                 [tablePg EXCEPT !.PartitionsProgress =
                    Put(@, partitionName, AddDone(partitionPg, delta))])

AddTableProgress(s, pid, name, total) ==
  LET p == Lookup(s, pid) IN
  IF p = NoProcess THEN Ret(s, "return")
  ELSE LET m == ProgressOf(s, p) IN
       IF name \in DOMAIN m
       THEN SetProgress(s, p, name, [m[name] EXCEPT !.Total = total])
       ELSE SetProgress(s, p, name, NewTableProgress(name, total))

AddPartitionProgress(s, pid, tableName, partitionName, total) ==
  LET p == Lookup(s, pid) IN
  IF p = NoProcess THEN Ret(s, "return")
  ELSE LET m == ProgressOf(s, p) IN
       IF tableName \notin DOMAIN m THEN Ret(s, "return")
       ELSE LET tablePg == m[tableName]
                pp == tablePg.PartitionsProgress
            IN SetProgress(s, p, tableName,
                 [tablePg EXCEPT !.PartitionsProgress =
                    IF partitionName \in DOMAIN pp
                    THEN Put(pp, partitionName, [pp[partitionName] EXCEPT !.Total = total])
                    ELSE Put(pp, partitionName, NewPartitionProgress(partitionName, total))])

\* delete(p.Progress, name); delete on a nil map does nothing
RemoveTableProgress(s, pid, name) ==
  LET p == Lookup(s, pid) IN
  IF p = NoProcess THEN Ret(s, "return")
  ELSE IF p.Progress = Nil THEN Ret(s, "ok")
  ELSE [Ret(s, "ok") EXCEPT !.progressMaps[p.Progress] = Delete(@, name)]

RemovePartitionProgress(s, pid, tableName, partitionName) ==
  LET p == Lookup(s, pid) IN
  IF p = NoProcess THEN Ret(s, "return")
  ELSE LET m == ProgressOf(s, p) IN
       IF tableName \notin DOMAIN m THEN Ret(s, "return")
       ELSE SetProgress(s, p, tableName,
              [m[tableName] EXCEPT !.PartitionsProgress = Delete(@, partitionName)])

\* Processes() appends a copy of every *proc to the result, in the order the
\* Go map is ranged over (any order).  The copy `p := *proc` keeps the address
\* of the Progress map; the map `progress` the loop fills is never stored.
Orders(S) ==
  {f \in [1..Cardinality(S) -> S] : \A i, j \in 1..Cardinality(S) : f[i] = f[j] => i = j}

\* (mutant) Processes() that leaves out the sleeping connections
ProcessesNotSleeping(s) ==
  LET awake == {c \in DOMAIN s.procs : s.procs[c].Command # ProcessCommandSleep}
  IN {[i \in DOMAIN o |-> s.procs[o[i]]] : o \in Orders(awake)}

Processes(s) ==
  {[i \in DOMAIN o |-> s.procs[o[i]]] : o \in Orders(DOMAIN s.procs)}

\* ------------------------------------------------------------------- actions
\* what a caller reads in a process of the returned slice: the struct copy,
\* with the Progress map read through its address
View(p) ==
  [p EXCEPT !.Progress = IF p.Progress = Nil THEN EmptyMap ELSE progressMaps[p.Progress]]

SnapView == [i \in DOMAIN snap |-> View(snap[i])]

At(s, id) == IF id \in DOMAIN s.procs THEN s.procs[id] ELSE NoProcess

\* The Go garbage collector: a Progress map that no process and no process of
\* the returned slice refers to can never be read or written again.
Collect(maps, ps, sn) ==
  [q \in {a \in DOMAIN maps :
            \/ \E c \in DOMAIN ps : ps[c].Progress = a
            \/ \E i \in DOMAIN sn : sn[i].Progress = a} |-> maps[q]]

\* the connection pid is registered to in byQueryPid, Nil when it is not
Owner(s, pid) == IF pid \in DOMAIN s.byQueryPid THEN s.byQueryPid[pid] ELSE Nil

\* whether the Progress of process p has an entry for table tbl, and whether
\* that entry has one for partition part
HasTable(s, p, tbl) == tbl \in DOMAIN ProgressOf(s, p)

HasPartition(s, p, tbl, part) ==
  HasTable(s, p, tbl) /\ part \in DOMAIN ProgressOf(s, p)[tbl].PartitionsProgress

\* The messages of the executor, as the callers of BeginQuery and of the
\* progress operations see them.
NothingSent == [t \in Tables |-> [done |-> 0, total |-> -1]]

Sent(op, pid, tbl, n, r) ==
  LET live == {r.procs[c].QueryPid :
                 c \in {d \in DOMAIN r.procs : r.procs[d].Command = ProcessCommandQuery}}
      now == IF op = "BeginQuery" /\ r.ret = "ok" THEN Put(sent, pid, NothingSent)
             ELSE IF op = "UpdateTableProgress" /\ pid \in DOMAIN sent
               THEN [sent EXCEPT ![pid][tbl].done = @ + n]
             ELSE IF op = "AddTableProgress" /\ pid \in DOMAIN sent
               THEN [sent EXCEPT ![pid][tbl].total = n]
             ELSE sent
  IN [q \in (DOMAIN now) \cap live |-> now[q]]

\* The contexts the callers of BeginQuery hold and have not ended.  A
\* *sql.Context holds its session and its pid; EndQuery(ctx) is taken as called
\* with every context that holds the session and the pid of ctx.
Open(op, conn, pid, r) ==
  LET now == IF op = "BeginQuery" /\ r.ret = "ok"
               THEN Put(open, r.ctx, [conn |-> conn, pid |-> pid])
             ELSE IF op = "EndQuery"
               THEN [k \in {j \in DOMAIN open : open[j] # [conn |-> conn, pid |-> pid]}
                       |-> open[k]]
             ELSE open
  IN [k \in (DOMAIN now) \cap (DOMAIN r.contexts) |-> now[k]]

Call(op, conn, pid, tbl, part, n, was, r) ==
  /\ procs' = r.procs
  /\ sent' = Sent(op, pid, tbl, n, r)
  /\ open' = Open(op, conn, pid, r)
  /\ \A q \in DOMAIN sent' : \A t \in Tables : sent'[q][t].done <= MaxDone
  /\ byQueryPid' = r.byQueryPid
  /\ contexts' = r.contexts
  /\ snap' = IF keeps THEN snap ELSE <<>>
  /\ progressMaps' = Collect(r.progressMaps, r.procs, snap')
  /\ last' = [op |-> op, conn |-> conn, pid |-> pid, tbl |-> tbl, part |-> part,
              n |-> n, ret |-> r.ret, ctx |-> r.ctx, was |-> was,
              owner |-> Owner(State, pid),
              hadProgress |-> ProgressOf(State, was) # EmptyMap,
              hadTable |-> HasTable(State, was, tbl),
              hadPartition |-> HasPartition(State, was, tbl, part)]
  /\ UNCHANGED <<keeps, muVars, gb, rg, stmtVars>>

\* the counters of the result stay within the bound of the model
Bounded(r) ==
  \A q \in DOMAIN r.progressMaps : \A t \in DOMAIN r.progressMaps[q] :
    /\ r.progressMaps[q][t].Done <= MaxDone
    /\ \A x \in DOMAIN r.progressMaps[q][t].PartitionsProgress :
         r.progressMaps[q][t].PartitionsProgress[x].Done <= MaxDone

\* The context a caller passes to BeginQuery is derived from the background
\* context, or from the context of the query its connection is running.
Parents(s, id) == {Nil} \cup {At(s, id).Kill}

\* The callers: C is the set of connection ids and P the set of pids they use.
CallAddConnection(C) ==
  \E id \in C, addr \in Addrs :
    Call("AddConnection", id, 0, "", "", 0, At(State, id), AddConnection(State, id, addr))

CallConnectionReady(C) ==
  \E id \in C, addr \in Addrs, user \in Users :
    Call("ConnectionReady", id, 0, "", "", 0, At(State, id),
         ConnectionReady(State, id, addr, user))

CallRemoveConnection(C) ==
  \E id \in C :
    Call("RemoveConnection", id, 0, "", "", 0, At(State, id), RemoveConnection(State, id))

CallBeginQuery(C, P) ==
  \E id \in C, pid \in P, query \in Queries : \E parent \in Parents(State, id) :
    LET r == BeginQuery(State, id, pid, parent, query) IN
    /\ r.ctx <= MaxCtx
    /\ Call("BeginQuery", id, pid, "", "", parent, At(State, id), r)

CallEndQuery(C, P) ==
  \E id \in C, pid \in P :
    Call("EndQuery", id, pid, "", "", 0, At(State, id), EndQuery(State, id, pid))

CallKill(C) ==
  \E id \in C :
    Call("Kill", id, 0, "", "", 0, At(State, id), Kill(State, id))

CallUpdateTableProgress(P) ==
  \E pid \in P, name \in Tables, delta \in Deltas :
    LET r == UpdateTableProgress(State, pid, name, delta) IN
    /\ Bounded(r)
    /\ Call("UpdateTableProgress", 0, pid, name, "", delta, Lookup(State, pid), r)

CallUpdatePartitionProgress(P) ==
  \E pid \in P, name \in Tables, part \in Parts, delta \in Deltas :
    LET r == UpdatePartitionProgress(State, pid, name, part, delta) IN
    /\ Bounded(r)
    /\ Call("UpdatePartitionProgress", 0, pid, name, part, delta, Lookup(State, pid), r)

CallAddTableProgress(P) ==
  \E pid \in P, name \in Tables, total \in Totals :
    Call("AddTableProgress", 0, pid, name, "", total, Lookup(State, pid),
         AddTableProgress(State, pid, name, total))

CallAddPartitionProgress(P) ==
  \E pid \in P, name \in Tables, part \in Parts, total \in Totals :
    Call("AddPartitionProgress", 0, pid, name, part, total, Lookup(State, pid),
         AddPartitionProgress(State, pid, name, part, total))

CallRemoveTableProgress(P) ==
  \E pid \in P, name \in Tables :
    Call("RemoveTableProgress", 0, pid, name, "", 0, Lookup(State, pid),
         RemoveTableProgress(State, pid, name))

CallRemovePartitionProgress(P) ==
  \E pid \in P, name \in Tables, part \in Parts :
    Call("RemovePartitionProgress", 0, pid, name, part, 0, Lookup(State, pid),
         RemovePartitionProgress(State, pid, name, part))

CallProcesses ==
  /\ snap' \in Processes(State)
  /\ progressMaps' = Collect(progressMaps, procs, snap')
  /\ last' = [op |-> "Processes", conn |-> 0, pid |-> 0, tbl |-> "", part |-> "",
              n |-> 0, ret |-> "ok", ctx |-> Nil, was |-> NoProcess,
              owner |-> Nil, hadProgress |-> FALSE, hadTable |-> FALSE,
              hadPartition |-> FALSE]
  /\ UNCHANGED <<procs, byQueryPid, contexts, keeps, sent, open, muVars, gb, rg, stmtVars>>

\* The callers of the operations as threads that run at the same time.
Threads == 1..MaxThreads
MutexConns == {1}
MutexPids == {1}

Idle ==
  [pc |-> "idle", op |-> "", id |-> 0, pid |-> 0, name |-> "", part |-> "",
   n |-> 0, parent |-> Nil, addr |-> "", user |-> "", query |-> "",
   p |-> Nil, ctx |-> Nil, ok |-> FALSE, pg |-> NewTableProgress("", 0),
   result |-> <<>>, todo |-> {}, ret |-> ""]

\* (mutant) a Lock() that does not wait
CanLockAlways(m) == TRUE

\* pl.mu.Lock() returns when no writer and no reader holds the mutex
CanLock(m) == m.w = Nil /\ m.r = {}

\* pl.mu.RLock() returns when no writer holds the mutex
CanRLock(m) == m.w = Nil

\* NewProcessList(): empty maps and a mutex nobody holds
NewProcessList ==
  /\ procs = EmptyMap
  /\ byQueryPid = EmptyMap
  /\ contexts = EmptyMap
  /\ progressMaps = EmptyMap
  /\ snap = <<>>
  /\ sent = EmptyMap
  /\ open = EmptyMap
  /\ last = [op |-> "NewProcessList", conn |-> 0, pid |-> 0, tbl |-> "", part |-> "",
             n |-> 0, ret |-> "ok", ctx |-> Nil, was |-> NoProcess,
             owner |-> Nil, hadProgress |-> FALSE, hadTable |-> FALSE,
             hadPartition |-> FALSE]
  /\ mu = [w |-> Nil, r |-> {}]
  /\ threads = [t \in Threads |-> Idle]
  /\ serial = [procs |-> EmptyMap, byQueryPid |-> EmptyMap, contexts |-> EmptyMap,
               progressMaps |-> EmptyMap, snap |-> <<>>]

\* no GroupBy iterator was made
NoGroupBy == [iter |-> Nil]

\* the rule resolveGenerators was not run
NoRun == [done |-> FALSE]

\* no node is under test, no session locks tables, nothing is called
NoStatement == nd = [op |-> ""] /\ lt = [step |-> ""] /\ co = [step |-> ""]

Init == NewProcessList /\ keeps = FALSE /\ gb = NoGroupBy /\ rg = NoRun /\ NoStatement

\* Connections and queries: the six operations of the connection handler and
\* Processes, called in any order with any connection id and pid.
Next ==
  \/ CallAddConnection(Conns)
  \/ CallConnectionReady(Conns)
  \/ CallRemoveConnection(Conns)
  \/ CallBeginQuery(Conns, Pids)
  \/ CallEndQuery(Conns, Pids)
  \/ CallKill(Conns)
  \/ CallProcesses

Spec == Init /\ [][Next]_vars

\* Progress: one connection running queries while the executor sends progress
\* messages for their pids.
ProgressConns == {1}
ProgressPids == 1..MaxProgressPid

NextProgress ==
  \/ CallConnectionReady(ProgressConns)
  \/ CallRemoveConnection(ProgressConns)
  \/ CallBeginQuery(ProgressConns, ProgressPids)
  \/ CallEndQuery(ProgressConns, ProgressPids)
  \/ CallUpdateTableProgress(ProgressPids)
  \/ CallUpdatePartitionProgress(ProgressPids)
  \/ CallAddTableProgress(ProgressPids)
  \/ CallAddPartitionProgress(ProgressPids)
  \/ CallRemoveTableProgress(ProgressPids)
  \/ CallRemovePartitionProgress(ProgressPids)

SpecProgress == Init /\ [][NextProgress]_vars

\* Snapshots: a reader calls Processes() and keeps the slice while the
\* connection goes on running queries and the executor reports progress.
SnapshotPids == {1}

NextSnapshot ==
  \/ CallConnectionReady(ProgressConns)
  \/ CallBeginQuery(ProgressConns, SnapshotPids)
  \/ CallEndQuery(ProgressConns, SnapshotPids)
  \/ CallUpdateTableProgress(SnapshotPids)
  \/ CallUpdatePartitionProgress(SnapshotPids)
  \/ CallAddTableProgress(SnapshotPids)
  \/ CallAddPartitionProgress(SnapshotPids)
  \/ CallRemoveTableProgress(SnapshotPids)
  \/ CallRemovePartitionProgress(SnapshotPids)
  \/ CallProcesses

InitSnapshot ==
  NewProcessList /\ keeps = TRUE /\ gb = NoGroupBy /\ rg = NoRun /\ NoStatement

SpecSnapshot == InitSnapshot /\ [][NextSnapshot]_vars

\* --------------------------------------------------------------- pl.mu
\* Concurrent callers: every thread calls one operation at a time.  An
\* operation takes pl.mu, runs the statements of its body one at a time and
\* releases pl.mu when it returns (the deferred Unlock, which also runs when
\* the body panics).  A pointer to a process is the connection id of its
\* entry in pl.procs.
\* the statement a thread is at, and the ways a body ends
Goto(s, l, pc) == [s |-> s, l |-> [l EXCEPT !.pc = pc]]

Return(s, l, r) == [s |-> s, l |-> [l EXCEPT !.pc = "Unlock", !.ret = r]]

\* the process structure p points to
Deref(s, l) == At(s, l.p)

AddConnectionStep(s, l) ==
  Return(AddConnection(s, l.id, l.addr), l, "ok")

ConnectionReadyStep(s, l) ==
  Return(ConnectionReady(s, l.id, l.addr, l.user), l, "ok")

RemoveConnectionStep(s, l) ==
  CASE l.pc = "rc1" ->
         IF l.id \in DOMAIN s.procs
         THEN Goto(s, [l EXCEPT !.p = l.id], "rc2")
         ELSE Return(s, l, "ok")
    [] l.pc = "rc2" ->
         IF Deref(s, l).Kill # Nil
         THEN Goto([s EXCEPT !.contexts = Cancel(@, Deref(s, l).Kill)], l, "rc3")
         ELSE Goto(s, l, "rc3")
    [] l.pc = "rc3" ->
         Goto([s EXCEPT !.byQueryPid = Unregister(@, Deref(s, l))], l, "rc4")
    [] l.pc = "rc4" ->
         Return([s EXCEPT !.procs = Delete(@, l.id)], l, "ok")

BeginQueryStep(s, l) ==
  CASE l.pc = "bq1" ->
         IF l.id \in DOMAIN s.procs
         THEN Goto(s, [l EXCEPT !.p = l.id], "bq2")
         ELSE Return(s, l, "ErrNotRegistered")
    [] l.pc = "bq2" ->
         IF PidUsed(s, l.pid) THEN Return(s, l, "ErrPidAlreadyUsed")
         ELSE Goto(s, l, "bq3")
    [] l.pc = "bq3" ->
         LET newCtx == Fresh(UsedContexts(s)) IN
         Goto([s EXCEPT !.contexts = WithCancel(@, newCtx, l.parent)],
              [l EXCEPT !.ctx = newCtx], "bq4")
    [] l.pc = "bq4" ->
         Goto([s EXCEPT !.procs[l.p] =
                 [@ EXCEPT !.Command = ProcessCommandQuery, !.Query = l.query,
                           !.QueryPid = l.pid]], l, "bq5")
    [] l.pc = "bq5" ->
         LET newMap == Fresh(UsedMaps(s)) IN
         Goto([s EXCEPT !.procs[l.p] = [@ EXCEPT !.Kill = l.ctx, !.Progress = newMap],
                        !.progressMaps = Put(@, newMap, EmptyMap)], l, "bq6")
    [] l.pc = "bq6" ->
         Return([s EXCEPT !.byQueryPid = Put(@, l.pid, l.id)], l, "ok")

EndQueryStep(s, l) ==
  CASE l.pc = "eq1" ->
         Goto([s EXCEPT !.byQueryPid = Delete(@, l.pid)], l, "eq2")
    [] l.pc = "eq2" ->
         IF l.id \in DOMAIN s.procs /\ s.procs[l.id].QueryPid = l.pid
         THEN Goto(s, [l EXCEPT !.p = l.id], "eq3")
         ELSE Return(s, l, "ok")
    [] l.pc = "eq3" ->
         Goto([s EXCEPT !.procs[l.p] =
                 [@ EXCEPT !.Command = ProcessCommandSleep, !.Query = ""]], l, "eq4")
    [] l.pc = "eq4" ->
         IF Deref(s, l).Kill = Nil THEN Return(s, l, "panic")
         ELSE Goto([s EXCEPT !.contexts = Cancel(@, Deref(s, l).Kill)], l, "eq5")
    [] l.pc = "eq5" ->
         Return([s EXCEPT !.procs[l.p] =
                   [@ EXCEPT !.Kill = Nil, !.QueryPid = 0, !.Progress = Nil]], l, "ok")

KillStep(s, l) ==
  CASE l.pc = "k1" ->
         IF l.id \in DOMAIN s.procs /\ s.procs[l.id].Kill # Nil
         THEN Goto(s, [l EXCEPT !.p = l.id], "k2")
         ELSE Return(s, l, "ok")
    [] l.pc = "k2" ->
         Return([s EXCEPT !.contexts = Cancel(@, Deref(s, l).Kill)], l, "ok")

\* the value a progress operation stores for the entry it read
Stored(l, tablePg) ==
  LET pp == tablePg.PartitionsProgress
      had == l.part \in DOMAIN pp
  IN CASE l.op = "UpdateTableProgress" ->
            AddDone(IF l.ok THEN tablePg ELSE NewTableProgress(l.name, -1), l.n)
       [] l.op = "AddTableProgress" ->
            IF l.ok THEN [tablePg EXCEPT !.Total = l.n]
            ELSE NewTableProgress(l.name, l.n)
       [] l.op = "UpdatePartitionProgress" ->
            [tablePg EXCEPT !.PartitionsProgress =
               Put(pp, l.part,
                   AddDone(IF had THEN pp[l.part]
                           ELSE NewPartitionProgress(l.part, -1), l.n))]
       [] l.op = "AddPartitionProgress" ->
            [tablePg EXCEPT !.PartitionsProgress =
               Put(pp, l.part,
                   IF had THEN [pp[l.part] EXCEPT !.Total = l.n]
                   ELSE NewPartitionProgress(l.part, l.n))]
       [] l.op = "RemovePartitionProgress" ->
            [tablePg EXCEPT !.PartitionsProgress = Delete(pp, l.part)]

\* the six progress operations: the two lookups, the read of the entry of the
\* table and the write
ProgressStep(s, l) ==
  CASE l.pc = "pg1" ->
         IF l.pid \in DOMAIN s.byQueryPid
         THEN Goto(s, [l EXCEPT !.id = s.byQueryPid[l.pid]], "pg2")
         ELSE Return(s, l, "return")
    [] l.pc = "pg2" ->
         IF l.id \in DOMAIN s.procs
         THEN Goto(s, [l EXCEPT !.p = l.id],
                   IF l.op = "RemoveTableProgress" THEN "pg4" ELSE "pg3")
         ELSE Return(s, l, "return")
    [] l.pc = "pg3" ->
         LET m == ProgressOf(s, Deref(s, l))
             ok == l.name \in DOMAIN m
         IN IF ~ok /\ l.op \in {"UpdatePartitionProgress", "AddPartitionProgress",
                                "RemovePartitionProgress"}
            THEN Return(s, l, "return")
            ELSE Goto(s, [l EXCEPT !.ok = ok, !.pg = IF ok THEN m[l.name] ELSE @], "pg4")
    [] l.pc = "pg4" ->
         LET p == Deref(s, l) IN
         IF l.op = "RemoveTableProgress"
         THEN IF p.Progress = Nil THEN Return(s, l, "ok")
              ELSE Return([s EXCEPT !.progressMaps[p.Progress] = Delete(@, l.name)],
                          l, "ok")
         ELSE LET r == SetProgress(s, p, l.name, Stored(l, l.pg)) IN
              Return(r, l, r.ret)

\* the next statement of the body of a writer
Step(s, l) ==
  CASE l.op = "AddConnection" -> AddConnectionStep(s, l)
    [] l.op = "ConnectionReady" -> ConnectionReadyStep(s, l)
    [] l.op = "RemoveConnection" -> RemoveConnectionStep(s, l)
    [] l.op = "BeginQuery" -> BeginQueryStep(s, l)
    [] l.op = "EndQuery" -> EndQueryStep(s, l)
    [] l.op = "Kill" -> KillStep(s, l)
    [] OTHER -> ProgressStep(s, l)

\* the first statement of the body of every operation
First(op) ==
  CASE op = "AddConnection" -> "ac1"
    [] op = "ConnectionReady" -> "cr1"
    [] op = "RemoveConnection" -> "rc1"
    [] op = "BeginQuery" -> "bq1"
    [] op = "EndQuery" -> "eq1"
    [] op = "Kill" -> "k1"
    [] op = "Processes" -> "ps1"
    [] OTHER -> "pg1"

\* the operation as one step: what a serial execution makes of the call
Atomic(s, l) ==
  CASE l.op = "AddConnection" -> AddConnection(s, l.id, l.addr)
    [] l.op = "ConnectionReady" -> ConnectionReady(s, l.id, l.addr, l.user)
    [] l.op = "RemoveConnection" -> RemoveConnection(s, l.id)
    [] l.op = "BeginQuery" -> BeginQuery(s, l.id, l.pid, l.parent, l.query)
    [] l.op = "EndQuery" -> EndQuery(s, l.id, l.pid)
    [] l.op = "Kill" -> Kill(s, l.id)
    [] l.op = "UpdateTableProgress" -> UpdateTableProgress(s, l.pid, l.name, l.n)
    [] l.op = "UpdatePartitionProgress" ->
         UpdatePartitionProgress(s, l.pid, l.name, l.part, l.n)
    [] l.op = "AddTableProgress" -> AddTableProgress(s, l.pid, l.name, l.n)
    [] l.op = "AddPartitionProgress" ->
         AddPartitionProgress(s, l.pid, l.name, l.part, l.n)
    [] l.op = "RemoveTableProgress" -> RemoveTableProgress(s, l.pid, l.name)
    [] l.op = "RemovePartitionProgress" ->
         RemovePartitionProgress(s, l.pid, l.name, l.part)

\* the calls a thread can make in state s
Args(op, id, pid, name, part, n, parent) ==
  [Idle EXCEPT !.op = op, !.id = id, !.pid = pid, !.name = name, !.part = part,
               !.n = n, !.parent = parent, !.pc = "Lock"]

Calls(s) ==
  {[Args("AddConnection", id, 0, "", "", 0, Nil) EXCEPT !.addr = addr] :
     id \in MutexConns, addr \in Addrs}
  \cup {[Args("ConnectionReady", id, 0, "", "", 0, Nil) EXCEPT
           !.addr = addr, !.user = user] :
          id \in MutexConns, addr \in Addrs, user \in Users}
  \cup {Args(op, id, 0, "", "", 0, Nil) :
          op \in {"RemoveConnection", "Kill"}, id \in MutexConns}
  \cup UNION {{[Args("BeginQuery", id, pid, "", "", 0, parent) EXCEPT !.query = query] :
                 pid \in MutexPids, query \in Queries, parent \in Parents(s, id)} :
              id \in MutexConns}
  \cup {Args("EndQuery", id, pid, "", "", 0, Nil) : id \in MutexConns, pid \in MutexPids}
  \cup {Args(op, 0, pid, name, "", n, Nil) :
          op \in {"UpdateTableProgress"}, pid \in MutexPids, name \in Tables, n \in Deltas}
  \cup {Args(op, 0, pid, name, part, n, Nil) :
          op \in {"UpdatePartitionProgress"}, pid \in MutexPids, name \in Tables,
          part \in Parts, n \in Deltas}
  \cup {Args(op, 0, pid, name, "", n, Nil) :
          op \in {"AddTableProgress"}, pid \in MutexPids, name \in Tables, n \in Totals}
  \cup {Args(op, 0, pid, name, part, n, Nil) :
          op \in {"AddPartitionProgress"}, pid \in MutexPids, name \in Tables,
          part \in Parts, n \in Totals}
  \cup {Args(op, 0, pid, name, "", 0, Nil) :
          op \in {"RemoveTableProgress"}, pid \in MutexPids, name \in Tables}
  \cup {Args(op, 0, pid, name, part, 0, Nil) :
          op \in {"RemovePartitionProgress"}, pid \in MutexPids, name \in Tables,
          part \in Parts}

\* the state of the process list in a record of any of the shapes above
Shared(r) ==
  [procs |-> r.procs, byQueryPid |-> r.byQueryPid, contexts |-> r.contexts,
   progressMaps |-> Collect(r.progressMaps, r.procs, <<>>), snap |-> <<>>]

\* a thread calls an operation: it is at the Lock() or the RLock() of the
\* operation until the mutex lets it in
MuCall(t) ==
  /\ threads[t].pc = "idle"
  /\ threads' \in {[threads EXCEPT ![t] = call] :
                     call \in Calls(State)
                       \cup {[Idle EXCEPT !.op = "Processes", !.pc = "RLock"]}}
  /\ UNCHANGED <<plVars, mu, serial, gb, rg, stmtVars>>

\* pl.mu.Lock() returns
MuLock(t) ==
  /\ threads[t].pc = "Lock"
  /\ CanLock(mu)
  /\ LET r == Atomic(State, threads[t]) IN
     /\ r.ctx <= MaxCtx
     /\ Bounded(r)
  /\ threads' = [threads EXCEPT ![t].pc = First(threads[t].op)]
  /\ mu' = [mu EXCEPT !.w = t]
  /\ UNCHANGED <<plVars, serial, gb, rg, stmtVars>>

\* pl.mu.RLock() returns
MuRLock(t) ==
  /\ threads[t].pc = "RLock"
  /\ CanRLock(mu)
  /\ threads' = [threads EXCEPT ![t].pc = First("Processes"),
                                ![t].todo = DOMAIN procs]
  /\ mu' = [mu EXCEPT !.r = @ \cup {t}]
  /\ UNCHANGED <<plVars, serial, gb, rg, stmtVars>>

\* one statement of the body of a writer
MuStep(t) ==
  /\ threads[t].pc \notin {"idle", "Lock", "RLock", "ps1", "Unlock", "RUnlock"}
  /\ LET r == Step(State, threads[t]) IN
     /\ procs' = r.s.procs
     /\ byQueryPid' = r.s.byQueryPid
     /\ contexts' = r.s.contexts
     /\ progressMaps' = r.s.progressMaps
     /\ threads' = [threads EXCEPT ![t] = r.l]
  /\ UNCHANGED <<snap, keeps, sent, open, last, mu, serial, gb, rg, stmtVars>>

\* one turn of `for _, proc := range pl.procs`, in any order
MuRange(t) ==
  /\ threads[t].pc = "ps1"
  /\ IF threads[t].todo = {}
     THEN threads' = [threads EXCEPT ![t].pc = "RUnlock"]
     ELSE \E c \in threads[t].todo :
            threads' = [threads EXCEPT
              ![t].todo = @ \ {c},
              ![t].result = IF c \in DOMAIN procs THEN Append(@, procs[c]) ELSE @]
  /\ UNCHANGED <<plVars, mu, serial, gb, rg, stmtVars>>

\* the deferred pl.mu.Unlock(): the call returns
MuUnlock(t) ==
  /\ threads[t].pc = "Unlock"
  /\ mu' = [mu EXCEPT !.w = Nil]
  /\ threads' = [threads EXCEPT ![t] = Idle]
  /\ progressMaps' = Collect(progressMaps, procs, <<>>)
  /\ serial' = Shared(Atomic(serial, threads[t]))
  /\ UNCHANGED <<procs, byQueryPid, contexts, snap, keeps, sent, open, last, gb, rg, stmtVars>>

\* the deferred pl.mu.RUnlock(): Processes() returns
MuRUnlock(t) ==
  /\ threads[t].pc = "RUnlock"
  /\ mu' = [mu EXCEPT !.r = @ \ {t}]
  /\ threads' = [threads EXCEPT ![t] = Idle]
  /\ UNCHANGED <<plVars, serial, gb, rg, stmtVars>>

NextMutex ==
  \/ \E t \in Threads : MuCall(t)
  \/ \E t \in Threads : MuLock(t)
  \/ \E t \in Threads : MuRLock(t)
  \/ \E t \in Threads : MuStep(t)
  \/ \E t \in Threads : MuRange(t)
  \/ \E t \in Threads : MuUnlock(t)
  \/ \E t \in Threads : MuRUnlock(t)

SpecMutex == Init /\ [][NextMutex]_vars

\* ------------------------------------------------------------ plan.GroupBy
\* A GroupBy node over a child iterator.  The child is a script: the rows its
\* Next returns, then io.EOF or an error; it may or may not look at the
\* context before it returns a row.  A row has one column, a; `fail` names the
\* expression whose Eval returns an error on that row ("" when none does).
Vals == 0..MaxVal
Fails == {"", "g", "s"}
Rows == [a : Vals, fail : Fails]
NoRow == <<>>
NULL == "NULL"
EOF == "io.EOF"
ErrChild == "ErrChild"
ErrEval == "ErrEval"
ErrCancelled == "context canceled"
ErrKeyNotFound == "ErrKeyNotFound"
ErrNoMemoryAvailable == "ErrNoMemoryAvailable"

\* sequences of at most n elements of S
RECURSIVE SeqsUpTo(_, _)
SeqsUpTo(S, n) ==
  IF n = 0 THEN {<<>>}
  ELSE LET shorter == SeqsUpTo(S, n - 1) IN
       shorter \cup {Append(q, x) : q \in {r \in shorter : Len(r) = n - 1}, x \in S}

\* the expressions of the node: a column, an aggregation and an alias of one
GetField(id) == [kind |-> "GetField", id |-> id]
Count == [kind |-> "Count", id |-> "c"]
Alias(child) == [kind |-> "Alias", id |-> "n", Child |-> child]
SelectedExprs == <<GetField("s"), Alias(Count)>>
GroupByExprsOf(grouped) == IF grouped THEN <<GetField("g")>> ELSE <<>>

\* expr.Eval(ctx, row) of a column
Eval(expr, row) ==
  IF row.fail = expr.id THEN [val |-> NULL, err |-> ErrEval]
  ELSE [val |-> row.a, err |-> ""]

\* i.child.Next(): the context is cancelled when the fuse of the call runs
\* out; a child that checks the context then returns the cancellation error
ChildNext(g) ==
  LET Called(done, g1, c) ==
        IF c.checks /\ done THEN [g |-> g1, row |-> NoRow, err |-> ErrCancelled]
        ELSE IF c.pos < Len(c.rows)
          THEN [g |-> [g1 EXCEPT !.child.pos = @ + 1], row |-> c.rows[c.pos + 1],
                err |-> ""]
        ELSE [g |-> g1, row |-> NoRow, err |-> c.end]
  IN Called(g.ctx.done \/ g.ctx.fuse = 0,
            [g EXCEPT !.ctx = [done |-> g.ctx.done \/ g.ctx.fuse = 0,
                               fuse |-> IF g.ctx.fuse >= 0 THEN g.ctx.fuse - 1 ELSE -1]],
            g.child)

\* (mutant) a Close that leaves the child open
LeaveChildOpen(c) == c

\* i.child.Close()
ChildClose(c) == [c EXCEPT !.closed = TRUE]

\* fillBuffer(expr)
RECURSIVE fillBuffer(_)
fillBuffer(expr) ==
  CASE expr.kind = "Count" -> <<0>>
    [] expr.kind = "Alias" -> fillBuffer(expr.Child)
    [] OTHER -> <<>>

\* updateBuffer(ctx, buffers, idx, expr, row)
RECURSIVE updateBuffer(_, _, _, _)
updateBuffer(buffers, idx, expr, row) ==
  CASE expr.kind = "Count" ->
         [buffers |-> [buffers EXCEPT ![idx] = <<@[1] + 1>>], err |-> ""]
    [] expr.kind = "Alias" -> updateBuffer(buffers, idx, expr.Child, row)
    [] OTHER ->
         LET v == Eval(expr, row) IN
         IF v.err # "" THEN [buffers |-> buffers, err |-> v.err]
         ELSE [buffers |-> [buffers EXCEPT ![idx] = <<v.val>>], err |-> ""]

\* updateBuffers(ctx, buffers, aggregates, row): the buffers before the one
\* that failed stay updated
RECURSIVE updateBuffersFrom(_, _, _, _)
updateBuffersFrom(i, buffers, aggregates, row) ==
  IF i > Len(aggregates) THEN [buffers |-> buffers, err |-> ""]
  ELSE LET r == updateBuffer(buffers, i, aggregates[i], row) IN
       IF r.err # "" THEN r
       ELSE updateBuffersFrom(i + 1, r.buffers, aggregates, row)

updateBuffers(buffers, aggregates, row) == updateBuffersFrom(1, buffers, aggregates, row)

\* evalBuffer(ctx, aggregation, buffer)
RECURSIVE evalBuffer(_, _)
evalBuffer(aggregation, buffer) ==
  CASE aggregation.kind = "Count" -> buffer[1]
    [] aggregation.kind = "Alias" -> evalBuffer(aggregation.Child, buffer)
    [] OTHER -> IF Len(buffer) > 0 THEN buffer[1] ELSE NULL

\* evalBuffers(ctx, buffers, aggregates)
evalBuffers(buffers, aggregates) ==
  [row |-> [i \in DOMAIN aggregates |-> evalBuffer(aggregates[i], buffers[i])],
   err |-> ""]

\* crc64.Checksum: a function of many printed values to one checksum, at the
\* width of the model
Checksum(v) == v % HashSpace

\* groupingKey(ctx, exprs, row), for the one group-by expression of the node
groupingKey(exprs, row) ==
  LET v == Eval(exprs[1], row) IN
  IF v.err # "" THEN [key |-> 0, err |-> v.err]
  ELSE [key |-> Checksum(v.val), err |-> ""]

\* ctx.Memory.NewHistoryCache(): a new cache and its dispose function
NewHistoryCache(g) ==
  [g EXCEPT !.caches = Append(@, [m |-> EmptyMap, disposed |-> FALSE])]

\* cache.Get(key): an error when the cache has no entry for key
CacheGet(g, cache, key) ==
  IF key \in DOMAIN g.caches[cache].m
  THEN [val |-> g.caches[cache].m[key], err |-> ""]
  ELSE [val |-> <<>>, err |-> ErrKeyNotFound]

\* cache.Put(key, value): an error when the memory manager has no memory left
CachePut(g, cache, key, value) ==
  IF Cardinality(DOMAIN g.caches[cache].m) >= g.memory
  THEN [g |-> g, err |-> ErrNoMemoryAvailable]
  ELSE [g |-> [g EXCEPT !.caches[cache].m = Put(@, key, value)], err |-> ""]

\* newGroupByIter(ctx, selectedExprs, child)
newGroupByIter ==
  [type |-> "groupByIter", buf |-> [j \in DOMAIN SelectedExprs |-> <<>>],
   done |-> FALSE]

\* newGroupByGroupingIter(ctx, selectedExprs, groupByExprs, child)
newGroupByGroupingIter ==
  [type |-> "groupByGroupingIter", aggregations |-> Nil, keys |-> <<>>, pos |-> 0,
   dispose |-> Nil]

\* (mutant) RowIter that takes every node for one without group-by expressions
NeverGrouped(groupByExprs) == FALSE

\* len(p.GroupByExprs) == 0 is false
Grouped(groupByExprs) == Len(groupByExprs) # 0

\* GroupBy.RowIter(ctx, row) over the iterator of the child
RowIter(groupByExprs, child, memory) ==
  [iter |-> IF Grouped(groupByExprs) THEN newGroupByGroupingIter ELSE newGroupByIter,
   groupByExprs |-> groupByExprs, child |-> child, caches |-> <<>>, memory |-> memory,
   ctx |-> [done |-> FALSE, fuse |-> -1], late |-> FALSE,
   returned |-> <<>>, closed |-> <<>>]

\* the loop of groupByIter.Next over the rows of the child
RECURSIVE groupByIterLoop(_)
groupByIterLoop(g) ==
  LET Updated(seen, u) ==
        IF u.err # "" THEN [g |-> [seen EXCEPT !.iter.buf = u.buffers], err |-> u.err]
        ELSE groupByIterLoop([seen EXCEPT !.iter.buf = u.buffers])
      Taken(seen, row) == Updated(seen, updateBuffers(seen.iter.buf, SelectedExprs, row))
      Read(r) ==
        IF r.err # "" THEN [g |-> r.g, err |-> IF r.err = EOF THEN "" ELSE r.err]
        ELSE Taken([r.g EXCEPT !.late = @ \/ r.g.ctx.done], r.row)
  IN Read(ChildNext(g))

\* (mutant) an iterator that starts again after it returned io.EOF
AtEndRearmed(g) ==
  [g |-> [g EXCEPT !.iter.done = FALSE], row |-> NoRow, err |-> EOF]

\* return nil, io.EOF
AtEnd(g) == [g |-> g, row |-> NoRow, err |-> EOF]

groupByIterNext(g) ==
  LET Evaluated(g1, e) == [g |-> g1, row |-> e.row, err |-> e.err]
      Looped(l) ==
        IF l.err # "" THEN [g |-> l.g, row |-> NoRow, err |-> l.err]
        ELSE Evaluated(l.g, evalBuffers(l.g.iter.buf, SelectedExprs))
  IN IF g.iter.done THEN AtEnd(g)
     ELSE Looped(groupByIterLoop(
            [g EXCEPT !.iter.done = TRUE,
                      !.iter.buf = [j \in DOMAIN SelectedExprs |->
                                      fillBuffer(SelectedExprs[j])]]))

groupByIterClose(g) ==
  [g |-> [g EXCEPT !.iter.buf = <<>>, !.child = ChildClose(@)], err |-> ""]

\* groupByGroupingIter.compute()
RECURSIVE compute(_)
compute(g) ==
  LET Updated(g1, cache, key, u) ==
        IF u.err # ""
        THEN [g |-> [g1 EXCEPT !.caches[cache].m[key] = u.buffers], err |-> u.err]
        ELSE compute([g1 EXCEPT !.caches[cache].m[key] = u.buffers])
      Got(g1, cache, key, row, b) ==
        IF b.err # "" THEN [g |-> g1, err |-> b.err]
        ELSE Updated(g1, cache, key, updateBuffers(b.val, SelectedExprs, row))
      Entered(g1, cache, key, row) == Got(g1, cache, key, row, CacheGet(g1, cache, key))
      Inserted(new, p, cache, key, row) ==
        IF p.err # "" THEN [g |-> p.g, err |-> p.err]
        ELSE Entered(IF new THEN [p.g EXCEPT !.iter.keys = Append(@, key)] ELSE p.g,
                     cache, key, row)
      Looked(seen, new, cache, key, row) ==
        Inserted(new,
                 IF new
                 THEN CachePut(seen, cache, key,
                               [j \in DOMAIN SelectedExprs |-> fillBuffer(SelectedExprs[j])])
                 ELSE [g |-> seen, err |-> ""],
                 cache, key, row)
      Keyed(seen, k, cache, row) ==
        IF k.err # "" THEN [g |-> seen, err |-> k.err]
        ELSE Looked(seen, CacheGet(seen, cache, k.key).err # "", cache, k.key, row)
      Taken(seen, row) ==
        Keyed(seen, groupingKey(seen.groupByExprs, row), seen.iter.aggregations, row)
      Read(r) ==
        IF r.err # "" THEN [g |-> r.g, err |-> IF r.err = EOF THEN "" ELSE r.err]
        ELSE Taken([r.g EXCEPT !.late = @ \/ r.g.ctx.done], r.row)
  IN Read(ChildNext(g))

groupByGroupingIterNext(g) ==
  LET Evaluated(g1, e) ==
        [g |-> [g1 EXCEPT !.iter.pos = @ + 1], row |-> e.row, err |-> e.err]
      Got(g1, buffers) ==
        IF buffers.err # "" THEN [g |-> g1, row |-> NoRow, err |-> buffers.err]
        ELSE Evaluated(g1, evalBuffers(buffers.val, SelectedExprs))
      Computed(c, it) ==
        IF c.err # "" THEN [g |-> c.g, row |-> NoRow, err |-> c.err]
        ELSE IF it.pos >= Len(it.keys) THEN [g |-> c.g, row |-> NoRow, err |-> EOF]
        ELSE Got(c.g, CacheGet(c.g, it.aggregations, it.keys[it.pos + 1]))
      Ready(c) == Computed(c, c.g.iter)
      Assigned(n) ==
        [n EXCEPT !.iter.aggregations = Len(n.caches), !.iter.dispose = Len(n.caches)]
  IN IF g.iter.aggregations = Nil THEN Ready(compute(Assigned(NewHistoryCache(g))))
     ELSE Ready([g |-> g, err |-> ""])

groupByGroupingIterClose(g) ==
  [g |-> [g EXCEPT !.iter.aggregations = Nil, !.child = ChildClose(@)], err |-> ""]

\* sql.RowIter: Next() and Close() of the iterator RowIter made
IterNext(g) ==
  IF g.iter.type = "groupByIter" THEN groupByIterNext(g) ELSE groupByGroupingIterNext(g)

IterClose(g) ==
  IF g.iter.type = "groupByIter" THEN groupByIterClose(g) ELSE groupByGroupingIterClose(g)

\* The caller of the iterator: calls of Next, then calls of Close.  During a
\* call of Next the context is cancelled before one of the calls of the
\* child (fuse), or not (-1); it can also be cancelled between two calls.
\* `late` of a call of Next says that the iterator took a row from its child
\* when the context was already cancelled.
Children ==
  [rows : SeqsUpTo(Rows, MaxRows), end : {EOF, ErrChild}, pos : {0},
   closed : {FALSE}, checks : BOOLEAN]

GBNext ==
  /\ gb.closed = <<>>
  /\ Len(gb.returned) < MaxCalls
  /\ \E fuse \in -1..MaxRows :
       LET Recorded(r) ==
             [r.g EXCEPT
                !.ctx.fuse = -1,
                !.returned = Append(@, [row |-> r.row, err |-> r.err,
                                        late |-> r.g.late])]
       IN gb' = Recorded(IterNext([gb EXCEPT
                                     !.ctx.fuse = IF gb.ctx.done THEN -1 ELSE fuse,
                                     !.late = FALSE]))
  /\ UNCHANGED <<plVars, muVars, rg, stmtVars>>

GBCancel ==
  /\ gb.closed = <<>>
  /\ ~gb.ctx.done
  /\ gb' = [gb EXCEPT !.ctx.done = TRUE]
  /\ UNCHANGED <<plVars, muVars, rg, stmtVars>>

GBClose ==
  /\ Len(gb.closed) < MaxCloses
  /\ LET r == IterClose(gb) IN
     gb' = [r.g EXCEPT !.closed = Append(@, r.err)]
  /\ UNCHANGED <<plVars, muVars, rg, stmtVars>>

InitGroupBy ==
  /\ NewProcessList
  /\ keeps = FALSE
  /\ gb \in {RowIter(GroupByExprsOf(grouped), child, memory) :
               grouped \in BOOLEAN, child \in Children, memory \in 1..(MaxRows + 1)}
  /\ rg = NoRun
  /\ NoStatement

NextGroupBy == GBNext \/ GBCancel \/ GBClose

SpecGroupBy == InitGroupBy /\ [][NextGroupBy]_vars

\* ----------------------------------------------- analyzer.resolveGenerators
\* A plan is a chain of Project (and Generate) nodes over a table.  The
\* projections are columns and EXPLODE calls on columns, bare or under an
\* alias; the type of a column is an array type or another type.
ArrayType == "ARRAY"
OtherType == "BIGINT"
Types == {ArrayType, OtherType}
errMultipleGenerators == "there can't be more than 1 instance of EXPLODE in a SELECT"
errExplodeNotArray == "argument of type %q given to EXPLODE, expecting array"

\* a nil sql.Expression, a nil sql.Node
NoExpr == [kind |-> "nil"]
NoNode == [kind |-> "nil"]

Column(t) == [kind |-> "GetField", type |-> t]
Explode(child) == [kind |-> "Explode", Child |-> child]
\* function.NewGenerate(child)
NewGenerate(child) == [kind |-> "Generate", Child |-> child]
\* expression.NewAlias(name, child)
NewAlias(name, child) == [kind |-> "Alias", Name |-> name, Child |-> child]
\* expression.NewGetField(idx, type, name, nullable)
NewGetField(idx, type, name) ==
  [kind |-> "GetField", idx |-> idx, type |-> type, name |-> name]

ProjectionExprs ==
  LET leaves == {Column(t) : t \in Types} \cup {Explode(Column(t)) : t \in Types}
  IN leaves \cup {NewAlias("x", e) : e \in leaves}

\* e.Type(): the type of the column an expression is made of
RECURSIVE TypeOf(_)
TypeOf(e) == IF e.kind = "GetField" THEN e.type ELSE TypeOf(e.Child)

\* e.(sql.Nameable).Name(), or e.String()
NameOf(e) == IF e.kind = "Alias" THEN e.Name ELSE <<"EXPLODE", e.Child>>

\* (mutant) a type test that takes every type for an array type
IsAnyType(t) == TRUE

\* sql.IsArray(t)
IsArray(t) == t = ArrayType

NoTable == [kind |-> "Table"]
\* plan.NewProject(projections, child)
NewProject(projections, child) ==
  [kind |-> "Project", Projections |-> projections, Child |-> child]
\* plan.NewGenerate(child, column)
NewGenerateNode(child, column) ==
  [kind |-> "Generate", Child |-> child, Column |-> column]

\* (mutant) a test that also takes a Generate expression, or an alias of
\* one, for an EXPLODE
IsExplodeOrGenerate(e) ==
  \/ e.kind \in {"Explode", "Generate"}
  \/ e.kind = "Alias" /\ e.Child.kind \in {"Explode", "Generate"}

\* e is an EXPLODE, or an alias of one
IsExplode(e) ==
  \/ e.kind = "Explode"
  \/ e.kind = "Alias" /\ e.Child.kind = "Explode"

\* (mutant) the Generate expression without the alias of the EXPLODE
LiftedBare(e) == NewGenerate(IF e.kind = "Alias" THEN e.Child.Child ELSE e.Child)

\* g.expr of a generator found: function.NewGenerate(e.Child), under the alias
\* of e if e is an alias
Lifted(e) ==
  IF e.kind = "Alias" THEN NewAlias(e.Name, NewGenerate(e.Child.Child))
  ELSE NewGenerate(e.Child)

\* (mutant) the test `g.idx > 0` for `g.idx >= 0`
SeenAfterFirst(g) == g.idx > 0

\* if g.idx >= 0: a generator was found before
Seen(g) == g.idx >= 0

\* the loop of findGenerator from index i (indexes count from 0 in g.idx)
RECURSIVE findGeneratorFrom(_, _, _)
findGeneratorFrom(exprs, i, g) ==
  IF i > Len(exprs)
  THEN [g |-> g, found |-> g.expr # NoExpr, err |-> ""]
  ELSE LET e == exprs[i] IN
       IF ~IsExplode(e) THEN findGeneratorFrom(exprs, i + 1, g)
       ELSE LET expr == Lifted(e)
            IN IF Seen(g)
               THEN [g |-> g, found |-> FALSE, err |-> errMultipleGenerators]
               ELSE IF ~IsArray(TypeOf(expr))
                 THEN [g |-> g, found |-> FALSE, err |-> errExplodeNotArray]
               ELSE findGeneratorFrom(exprs, i + 1, [idx |-> i - 1, expr |-> expr])

findGenerator(exprs) == findGeneratorFrom(exprs, 1, [idx |-> -1, expr |-> NoExpr])

\* The function resolveGenerators passes to TransformUp, on a node n.  It
\* writes the Generate expression into the projection list of n, which is the
\* list of the Project of the input (`projections` is that list afterwards).
resolveNode(n) ==
  IF n.kind # "Project" THEN [node |-> n, err |-> "", projections |-> <<>>]
  ELSE LET f == findGenerator(n.Projections) IN
       IF f.err # "" THEN [node |-> NoNode, err |-> f.err, projections |-> n.Projections]
       ELSE IF ~f.found THEN [node |-> n, err |-> "", projections |-> n.Projections]
       ELSE LET projection == [n.Projections EXCEPT ![f.g.idx + 1] = f.g.expr] IN
            [node |-> NewGenerateNode(
                        NewProject(projection, n.Child),
                        NewGetField(f.g.idx, TypeOf(f.g.expr), NameOf(f.g.expr))),
             err |-> "", projections |-> projection]

\* plan.TransformUp(n, f): the children first, then the node made of them;
\* `input` is the input node after the call
RECURSIVE TransformUp(_)
TransformUp(n) ==
  IF n.kind = "Table" THEN [node |-> n, err |-> "", input |-> n]
  ELSE LET c == TransformUp(n.Child) IN
       IF c.err # ""
       THEN [node |-> NoNode, err |-> c.err, input |-> [n EXCEPT !.Child = c.input]]
       ELSE LET r == resolveNode([n EXCEPT !.Child = c.node]) IN
            [node |-> r.node, err |-> r.err,
             input |-> IF n.kind = "Project"
                       THEN [n EXCEPT !.Child = c.input, !.Projections = r.projections]
                       ELSE [n EXCEPT !.Child = c.input]]

resolveGenerators(n) == TransformUp(n)

\* The plans the rule is applied to: a Project over the table, and a Project
\* over a Project over the table.
Plans ==
  LET outer == {NewProject(p, NoTable) : p \in SeqsUpTo(ProjectionExprs, MaxProj) \ {<<>>}}
      inner == {NewProject(<<e>>, NoTable) : e \in ProjectionExprs}
  IN outer \cup {NewProject(p, c) :
                   p \in SeqsUpTo(ProjectionExprs, MaxProj - 1) \ {<<>>}, c \in inner}

\* the analyzer runs the rule on a plan
RunResolveGenerators ==
  /\ ~rg.done
  /\ LET r == resolveGenerators(rg.plan) IN
     rg' = [rg EXCEPT !.done = TRUE, !.node = r.node, !.err = r.err, !.input = r.input]
  /\ UNCHANGED <<plVars, muVars, gb, stmtVars>>

\* the analyzer runs the rule on the plan the rule returned
RunResolveGeneratorsAgain ==
  /\ rg.done
  /\ rg.err = ""
  /\ ~rg.again.done
  /\ LET r == resolveGenerators(rg.node) IN
     rg' = [rg EXCEPT !.again = [node |-> r.node, err |-> r.err, done |-> TRUE]]
  /\ UNCHANGED <<plVars, muVars, gb, stmtVars>>

InitGenerators ==
  /\ NewProcessList
  /\ keeps = FALSE
  /\ gb = NoGroupBy
  /\ rg \in {[plan |-> p, input |-> p, node |-> NoNode, err |-> "", done |-> FALSE,
               again |-> [node |-> NoNode, err |-> "", done |-> FALSE]] :
               p \in Plans}
  /\ NoStatement

NextGenerators == RunResolveGenerators \/ RunResolveGeneratorsAgain

SpecGenerators == InitGenerators /\ [][NextGenerators]_vars

\* ------------------------------------- WithChildren, WithExpressions, RowIter
\* The plan nodes and the expressions of the source, as their constructors
\* make them, and the methods that rebuild them.
ErrInvalidChildrenNumber == "invalid children number"
ErrInvalidArgumentNumber == "invalid argument number"
errReplicationNotSupported == "replication statements not supported"
errDateAddInterval == "DATE_ADD expects an interval as second parameter"
errDateSubInterval == "DATE_SUB expects an interval as second parameter"

\* plan.NewGroupBy(selectedExprs, groupByExprs, child)
NewGroupBy(selectedExprs, groupByExprs, child) ==
  [kind |-> "GroupBy", Child |-> child,
   SelectedExprs |-> selectedExprs, GroupByExprs |-> groupByExprs]

NewReplicationOption(name, value) == [Name |-> name, Value |-> value]
NewChangeReplicationSource(options) ==
  [kind |-> "ChangeReplicationSource", Options |-> options]
NewStartReplica == [kind |-> "StartReplica"]
NewStopReplica == [kind |-> "StopReplica"]
ReplicationKinds == {"ChangeReplicationSource", "StartReplica", "StopReplica"}

\* an *expression.Interval
NewInterval(delta) == [kind |-> "Interval", delta |-> delta]

\* function.NewDateAdd(args...)
NewDateAdd(args) ==
  IF Len(args) # 2 THEN [node |-> NoExpr, err |-> ErrInvalidArgumentNumber]
  ELSE IF args[2].kind # "Interval" THEN [node |-> NoExpr, err |-> errDateAddInterval]
  ELSE [node |-> [kind |-> "DateAdd", Date |-> args[1], Interval |-> args[2]],
        err |-> ""]

\* function.NewDateSub(args...)
NewDateSub(args) ==
  IF Len(args) # 2 THEN [node |-> NoExpr, err |-> ErrInvalidArgumentNumber]
  ELSE IF args[2].kind # "Interval" THEN [node |-> NoExpr, err |-> errDateSubInterval]
  ELSE [node |-> [kind |-> "DateSub", Date |-> args[1], Interval |-> args[2]],
        err |-> ""]

\* function.NewUnixTimestamp(args...)
NewUnixTimestamp(args) ==
  IF Len(args) > 1 THEN [node |-> NoExpr, err |-> ErrInvalidArgumentNumber]
  ELSE IF Len(args) = 0
    THEN [node |-> [kind |-> "UnixTimestamp", clock |-> "defaultClock", Date |-> NoExpr],
          err |-> ""]
  ELSE [node |-> [kind |-> "UnixTimestamp", clock |-> "defaultClock", Date |-> args[1]],
        err |-> ""]

\* n.Children()
ChildrenOf(n) ==
  CASE n.kind = "GroupBy" -> <<n.Child>>
    [] n.kind \in ReplicationKinds -> <<>>
    [] n.kind \in {"DateAdd", "DateSub"} -> <<n.Date, n.Interval>>
    [] n.kind = "UnixTimestamp" -> IF n.Date # NoExpr THEN <<n.Date>> ELSE <<>>

\* (mutant) a WithChildren of GroupBy that takes any number of children
GroupByWithFirstChild(p, children) ==
  [node |-> NewGroupBy(p.SelectedExprs, p.GroupByExprs,
                       IF children = <<>> THEN p.Child ELSE children[1]),
   err |-> ""]

\* GroupBy.WithChildren(children...)
GroupByWithChildren(p, children) ==
  IF Len(children) # 1 THEN [node |-> NoNode, err |-> ErrInvalidChildrenNumber]
  ELSE [node |-> NewGroupBy(p.SelectedExprs, p.GroupByExprs, children[1]), err |-> ""]

\* GroupBy.Expressions()
Expressions(p) == p.SelectedExprs \o p.GroupByExprs

\* (mutant) a grouping list read without the offset of the selected
\* expressions
GroupingWithoutOffset(p, exprs) ==
  [i \in 1..Len(p.GroupByExprs) |-> exprs[i]]

\* grouping[i] = exprs[i+offset]
Grouping(p, exprs) ==
  [i \in 1..Len(p.GroupByExprs) |-> exprs[i + Len(p.SelectedExprs)]]

\* GroupBy.WithExpressions(exprs...)
WithExpressions(p, exprs) ==
  IF Len(exprs) # Len(p.SelectedExprs) + Len(p.GroupByExprs)
  THEN [node |-> NoNode, err |-> ErrInvalidChildrenNumber]
  ELSE [node |-> NewGroupBy([i \in 1..Len(p.SelectedExprs) |-> exprs[i]],
                            Grouping(p, exprs), p.Child),
        err |-> ""]

\* WithChildren of ChangeReplicationSource, StartReplica and StopReplica
ReplicationWithChildren(n, children) ==
  IF Len(children) # 0 THEN [node |-> NoNode, err |-> ErrInvalidChildrenNumber]
  ELSE [node |-> n, err |-> ""]

\* n.WithChildren(children...)
WithChildren(n, children) ==
  CASE n.kind = "GroupBy" -> GroupByWithChildren(n, children)
    [] n.kind \in ReplicationKinds -> ReplicationWithChildren(n, children)
    [] n.kind = "DateAdd" -> NewDateAdd(children)
    [] n.kind = "DateSub" -> NewDateSub(children)
    [] n.kind = "UnixTimestamp" -> NewUnixTimestamp(children)

\* Resolved() of ChangeReplicationSource, StartReplica and StopReplica
ReplicationResolved(n) == TRUE

\* (mutant) a RowIter that returns an iterator without rows
ReplicationNoRows(n, ctx, row) == [iter |-> <<>>, err |-> ""]

\* RowIter(ctx, row) of ChangeReplicationSource, StartReplica and StopReplica
ReplicationRowIter(n, ctx, row) == [iter |-> Nil, err |-> errReplicationNotSupported]

\* The nodes and expressions the methods are called on, and the arguments of
\* the calls.
NodeExprs == {GetField("g"), GetField("s"), Alias(Count)}
ChildNodes == {NoTable, NewStartReplica}
Intervals == {NewInterval(d) : d \in 1..MaxExprs}
DateExprs == {Column(OtherType)} \cup Intervals
GroupBys ==
  {NewGroupBy(s, g, c) : s \in SeqsUpTo(NodeExprs, MaxExprs),
                         g \in SeqsUpTo(NodeExprs, MaxExprs), c \in ChildNodes}
ReplicationNodes ==
  {NewChangeReplicationSource(o) :
     o \in SeqsUpTo({NewReplicationOption("SOURCE_HOST", "h"),
                     NewReplicationOption("SOURCE_PORT", "1")}, MaxExprs)}
  \cup {NewStartReplica, NewStopReplica}
DateFunctions ==
  {NewDateAdd(<<d, i>>).node : d \in DateExprs, i \in Intervals}
  \cup {NewDateSub(<<d, i>>).node : d \in DateExprs, i \in Intervals}
  \cup {NewUnixTimestamp(a).node : a \in SeqsUpTo(DateExprs, 1)}
ChildrenFor(n) ==
  IF n.kind \in {"DateAdd", "DateSub", "UnixTimestamp"}
  THEN SeqsUpTo(DateExprs, MaxChildren + 1)
  ELSE SeqsUpTo(ChildNodes, MaxChildren)

\* the method op was called on the node with args and returned ret
MethodReturned(op, args, ret) == nd' = [nd EXCEPT !.op = op, !.args = args, !.ret = ret]

\* n.WithChildren(children...), with the children of n or with other ones
CallWithChildren ==
  /\ nd.op = "new"
  /\ \E children \in ChildrenFor(nd.node) :
       MethodReturned("WithChildren", children, WithChildren(nd.node, children))
  /\ UNCHANGED <<plVars, muVars, gb, rg, lt, co>>

\* p.WithExpressions(exprs...) of a GroupBy
CallWithExpressions ==
  /\ nd.op = "new"
  /\ nd.node.kind = "GroupBy"
  /\ \E exprs \in SeqsUpTo(NodeExprs, 2 * MaxExprs) :
       MethodReturned("WithExpressions", exprs, WithExpressions(nd.node, exprs))
  /\ UNCHANGED <<plVars, muVars, gb, rg, lt, co>>

\* the analyzer asks a replication node whether it is resolved
CallResolved ==
  /\ nd.op = "new"
  /\ nd.node.kind \in ReplicationKinds
  /\ MethodReturned("Resolved", <<>>, ReplicationResolved(nd.node))
  /\ UNCHANGED <<plVars, muVars, gb, rg, lt, co>>

\* the engine executes a replication node, with any context and row
CallRowIter ==
  /\ nd.op = "new"
  /\ nd.node.kind \in ReplicationKinds
  /\ \E done \in BOOLEAN, row \in SeqsUpTo(Vals, 1) :
       MethodReturned("RowIter", <<done, row>>, ReplicationRowIter(nd.node, [done |-> done], row))
  /\ UNCHANGED <<plVars, muVars, gb, rg, lt, co>>

InitNodes ==
  /\ NewProcessList
  /\ keeps = FALSE
  /\ gb = NoGroupBy
  /\ rg = NoRun
  /\ lt = [step |-> ""]
  /\ co = [step |-> ""]
  /\ nd \in {[node |-> n, op |-> "new", args |-> <<>>, ret |-> <<>>] :
               n \in GroupBys \cup ReplicationNodes \cup DateFunctions}

NextNodes == CallWithChildren \/ CallWithExpressions \/ CallResolved \/ CallRowIter

SpecNodes == InitNodes /\ [][NextNodes]_vars

\* ------------------------------------------------- LOCK TABLES, UNLOCK TABLES
\* The tables of a database, some of them lockable, with the counters the
\* lockable table of the engine tests keeps; the lock table of the engine,
\* from a connection to the set of {table, mode} it holds; a session that runs
\* LOCK TABLES over a list that names each table once, then UNLOCK TABLES.
LockedTables == {"t1", "t2", "t3"}
LockConns == 1..MaxLockConns
errLock == "unable to lock table"

\* newLockableTable(t)
newLockableTable == [readLocks |-> 0, writeLocks |-> 0, unlocks |-> 0]

\* (mutant) a Lock that does not look at the mode
LockForRead(t, write) == [t EXCEPT !.readLocks = @ + 1]

\* lockableTable.Lock(ctx, write)
LockTable(t, write) ==
  IF write THEN [t EXCEPT !.writeLocks = @ + 1] ELSE [t EXCEPT !.readLocks = @ + 1]

\* lockableTable.Unlock(ctx, id)
UnlockTable(t) == [t EXCEPT !.unlocks = @ + 1]

\* the tables of s after Unlock of every lock of the set held
Release(s, held) ==
  [s EXCEPT !.tables = [t \in DOMAIN @ |->
                          IF \E l \in held : l.table = t THEN UnlockTable(@[t]) ELSE @[t]]]

\* The LockTables iterator, from entry i of the list: Lock on every lockable
\* table in order; the first failure unlocks the tables acquired and is the
\* error of the statement; the locks acquired are recorded for the connection.
RECURSIVE lockTablesFrom(_, _, _, _)
lockTablesFrom(s, c, i, acquired) ==
  LET Locked(l, s1) ==
        IF l.table \in s.failing
        THEN [Release(s1, acquired) EXCEPT !.err = errLock]
        ELSE lockTablesFrom(s1, c, i + 1, acquired \cup {l})
      Entry(l) ==
        IF l.table \notin DOMAIN s.tables THEN lockTablesFrom(s, c, i + 1, acquired)
        ELSE Locked(l, [s EXCEPT !.tables[l.table] = LockTable(@, l.write)])
  IN IF i > Len(s.list) THEN [s EXCEPT !.locks[c] = @ \cup acquired, !.err = ""]
     ELSE Entry(s.list[i])

\* (mutant) an UNLOCK TABLES that forgets the locks and unlocks no table
ForgetLocks(s, c) == [s EXCEPT !.locks[c] = {}]

\* UnlockTables: releases every lock recorded for the connection
unlockTables(s, c) == [Release(s, s.locks[c]) EXCEPT !.locks[c] = {}]

\* connection c runs LOCK TABLES over the list
LockTablesStatement ==
  /\ lt.step = "new"
  /\ lt' = [lockTablesFrom(lt, lt.conn, 1, {}) EXCEPT !.step = "locked"]
  /\ UNCHANGED <<plVars, muVars, gb, rg, nd, co>>

\* a connection runs UNLOCK TABLES: the one that locked, or another one
UnlockTablesStatement ==
  /\ lt.step = "locked"
  /\ \E c \in LockConns :
       lt' = [unlockTables(lt, c) EXCEPT
                !.step = IF c = lt.conn THEN "unlocked" ELSE "locked",
                !.others = @ \/ c # lt.conn]
  /\ UNCHANGED <<plVars, muVars, gb, rg, nd, co>>

\* the lists of LOCK TABLES: every table at most once, each in a mode
LockLists ==
  {l \in SeqsUpTo([table : LockedTables, write : BOOLEAN], MaxLocks) :
     \A i, j \in 1..Len(l) : l[i].table = l[j].table => i = j}

InitLocks ==
  /\ NewProcessList
  /\ keeps = FALSE
  /\ gb = NoGroupBy
  /\ rg = NoRun
  /\ nd = [op |-> ""]
  /\ co = [step |-> ""]
  /\ \E list \in LockLists, lockable \in SUBSET LockedTables, c \in LockConns :
       \E failing \in SUBSET lockable :
         lt = [step |-> "new", conn |-> c, list |-> list, failing |-> failing,
               tables |-> [t \in lockable |-> newLockableTable],
               locks |-> [x \in LockConns |-> {}], err |-> "", others |-> FALSE]

NextLocks == LockTablesStatement \/ UnlockTablesStatement

SpecLocks == InitLocks /\ [][NextLocks]_vars

\* ------------------------------------------------------------- CALL ... AS OF
\* A CALL of a procedure whose body is a CALL of a procedure, and so on down
\* to a SELECT from a versioned table; the CALLs and the SELECT have an AS OF
\* clause or none.  `clauses` are the clauses from the outermost CALL to the
\* SELECT, `asOf` is what the statement being run got from the ones around it.
NoAsOf == "none"
Current == "current"
Snapshots == {"2019-01-01", "2019-01-02", "2019-01-03"}

\* (mutant) a propagation in which the AS OF of the enclosing CALL wins
OuterAsOf(inherited, clause) == IF inherited # NoAsOf THEN inherited ELSE clause

\* the AS OF a statement runs with: its own clause, else the one it got
AsOf(inherited, clause) == IF clause # NoAsOf THEN clause ELSE inherited

\* the engine runs the next CALL of the chain
CallProcedure ==
  /\ co.step = "call"
  /\ co.pos < Len(co.clauses)
  /\ co' = [co EXCEPT !.asOf = AsOf(@, co.clauses[co.pos]), !.pos = @ + 1]
  /\ UNCHANGED <<plVars, muVars, gb, rg, nd, lt>>

\* the engine runs the SELECT of the innermost procedure
SelectFromTable ==
  /\ co.step = "call"
  /\ co.pos = Len(co.clauses)
  /\ LET asOf == AsOf(co.asOf, co.clauses[co.pos]) IN
     co' = [co EXCEPT !.step = "read",
                      !.used = IF asOf = NoAsOf THEN Current ELSE asOf]
  /\ UNCHANGED <<plVars, muVars, gb, rg, nd, lt>>

InitCalls ==
  /\ NewProcessList
  /\ keeps = FALSE
  /\ gb = NoGroupBy
  /\ rg = NoRun
  /\ nd = [op |-> ""]
  /\ lt = [step |-> ""]
  /\ \E clauses \in SeqsUpTo(Snapshots \cup {NoAsOf}, MaxDepth + 1) :
       /\ Len(clauses) >= 2
       /\ co = [step |-> "call", clauses |-> clauses, pos |-> 1, asOf |-> NoAsOf,
                used |-> NoAsOf]

NextCalls == CallProcedure \/ SelectFromTable

SpecCalls == InitCalls /\ [][NextCalls]_vars

\* ------------------------------------------------------------------- claims
Running(p) == p.Command = ProcessCommandQuery

\* what Processes() shows of connection c: the entries of the slices it can
\* return that have c as their connection
Shown(c) ==
  {View(sn[i]) : sn \in Processes(State), i \in 1..Cardinality(DOMAIN procs)}
    \cap {View(procs[d]) : d \in (DOMAIN procs) \cap {c}}

\* C1: no two processes that run a query have the same query pid, and at most
\* one pid of byQueryPid maps to any connection.
C1_PidUniqueOneQueryPerConnection ==
  /\ \A c, d \in DOMAIN procs :
       (c # d /\ Running(procs[c]) /\ Running(procs[d]))
         => procs[c].QueryPid # procs[d].QueryPid
  /\ \A c \in Conns :
       Cardinality({pid \in DOMAIN byQueryPid : byQueryPid[pid] = c}) <= 1

\* C2: a BeginQuery on a registered connection whose pid is registered in
\* byQueryPid to another connection fails with the pid-already-used error.
C2_BeginQueryPidAlreadyUsed ==
  (/\ last.op = "BeginQuery"
   /\ last.was # NoProcess
   /\ last.owner # Nil
   /\ last.owner # last.conn)
    => last.ret = "ErrPidAlreadyUsed"

C2_Witness ==
  /\ last.op = "BeginQuery"
  /\ last.was # NoProcess
  /\ last.owner # Nil
  /\ last.owner # last.conn
  /\ last.owner \in DOMAIN procs
  /\ Running(procs[last.owner])
  /\ procs[last.owner].QueryPid = last.pid
  /\ last.ret = "ErrPidAlreadyUsed"

\* C3 as stated: the slice Processes() returns has as many entries as there
\* are registered connections whose command is not sleep.
C3_ProcessesCountsNonSleep ==
  last.op = "Processes"
    => Len(snap) = Cardinality({c \in DOMAIN procs :
                                  procs[c].Command # ProcessCommandSleep})

\* C3 amended: the slice Processes() returns has one entry for every
\* registered connection, sleeping connections included.
C3_ProcessesCountsConnections ==
  last.op = "Processes"
    => /\ Len(snap) = Cardinality(DOMAIN procs)
       /\ {snap[i].Connection : i \in DOMAIN snap} = DOMAIN procs

C3_Witness ==
  /\ last.op = "Processes"
  /\ Len(snap) = 2
  /\ \E i, j \in DOMAIN snap :
       /\ snap[i].Command = ProcessCommandSleep
       /\ snap[j].Command = ProcessCommandQuery

\* C4: after EndQuery for the query its connection is running, Processes()
\* shows the connection with command sleep, no query text, pid 0 and no
\* progress, and the pid is not registered in byQueryPid.
C4_EndQueryShowsSleep ==
  (/\ last.op = "EndQuery"
   /\ Running(last.was)
   /\ last.was.QueryPid = last.pid)
    => /\ last.pid \notin DOMAIN byQueryPid
       /\ last.conn \in DOMAIN procs
       /\ procs[last.conn].Progress = Nil
       /\ Shown(last.conn) # {}
       /\ \A p \in Shown(last.conn) :
            /\ p.Command = ProcessCommandSleep
            /\ p.Query = ""
            /\ p.QueryPid = 0
            /\ p.Progress = EmptyMap

C4_Witness ==
  /\ last.op = "EndQuery"
  /\ Running(last.was)
  /\ last.was.QueryPid = last.pid
  /\ last.pid # 0
  /\ last.hadProgress
  /\ last.ret = "ok"

\* C5: BeginQuery attaches the cancel function of the context it returns to
\* the process, and Kill(c) on a connection that runs a query leaves the
\* context of that query cancelled.
C5_KillCancelsQueryContext ==
  /\ (last.op = "BeginQuery" /\ last.ret = "ok")
       => /\ last.ctx # Nil
          /\ procs[last.conn].Kill = last.ctx
  /\ (last.op = "Kill" /\ Running(last.was))
       => /\ last.was.Kill # Nil
          /\ Err(contexts, last.was.Kill)

C5_Witness ==
  /\ last.op = "Kill"
  /\ Running(last.was)
  /\ last.was.Kill # Nil
  /\ Err(contexts, last.was.Kill)
  /\ procs[last.conn] = last.was

\* C6: RemoveConnection(c) on a connection that runs a query cancels the
\* context of the query and removes the entry: c is not in what Processes()
\* returns, its query pid is not registered, and a BeginQuery of another
\* connection with that pid succeeds.
C6_RemoveConnectionKillsAndRemoves ==
  (last.op = "RemoveConnection" /\ Running(last.was))
    => /\ Err(contexts, last.was.Kill)
       /\ last.conn \notin DOMAIN procs
       /\ Shown(last.conn) = {}
       /\ last.was.QueryPid \notin DOMAIN byQueryPid
       /\ \A d \in DOMAIN procs, q \in Queries :
            BeginQuery(State, d, last.was.QueryPid, Nil, q).ret = "ok"

C6_Witness ==
  /\ last.op = "RemoveConnection"
  /\ Running(last.was)
  /\ last.was.QueryPid # 0
  /\ DOMAIN procs # {}

ProgressOps ==
  {"UpdateTableProgress", "UpdatePartitionProgress", "AddTableProgress",
   "AddPartitionProgress", "RemoveTableProgress", "RemovePartitionProgress"}

PartitionOps ==
  {"UpdatePartitionProgress", "AddPartitionProgress", "RemovePartitionProgress"}

\* C8: the slice Processes() returned is a snapshot: what its processes show,
\* the content of their Progress maps included, is the same after any later
\* call.
C8_ProcessesIsSnapshot ==
  [][last'.op # "Processes" => SnapView' = SnapView]_vars

\* C9 as stated: for the pid of a query that a process runs, the Done of each
\* table of its progress is the sum of the deltas sent for that pid and table
\* since the query began, and its Total is the total of the last
\* AddTableProgress (-1 when there was none).
C9_DoneIsSumSinceQueryBegan ==
  \A c \in DOMAIN procs :
    Running(procs[c]) =>
      \A t \in DOMAIN ProgressOf(State, procs[c]) :
        /\ ProgressOf(State, procs[c])[t].Done = sent[procs[c].QueryPid][t].done
        /\ ProgressOf(State, procs[c])[t].Total = sent[procs[c].QueryPid][t].total

\* C9 amended: for a pid that byQueryPid resolves to a process that runs a
\* query, UpdateTableProgress adds its delta to the Done of the table's entry
\* (an entry with Done 0 and Total -1 is made when there is none) and
\* AddTableProgress sets the Total of the entry and keeps its Done (an entry
\* with Done 0 is made when there is none); the partition operations do the
\* same to the partition's entry under an existing table entry; and no call
\* other than a progress operation on that process changes its Progress.  So
\* Done is the sum of the deltas, and Total the last total, since the entry
\* was made: since the query began or the entry was last removed.
C9_EntryBefore(m, t) == IF t \in DOMAIN m THEN m[t] ELSE NewTableProgress(t, -1)

C9_PartBefore(pp, x) == IF x \in DOMAIN pp THEN pp[x] ELSE NewPartitionProgress(x, -1)

C9_Step ==
  LET p == last'.was
      m == ProgressOf(State, p)
      t == last'.tbl
      x == last'.part
      n == last'.n
  IN
  /\ (last'.op \in ProgressOps /\ Running(p)) =>
       /\ last'.ret \in {"ok", "return"}
       /\ procs' = procs
       /\ \A u \in DOMAIN m : u # t =>
            u \in DOMAIN progressMaps'[p.Progress] /\ progressMaps'[p.Progress][u] = m[u]
  /\ (last'.op = "UpdateTableProgress" /\ Running(p)) =>
       /\ t \in DOMAIN progressMaps'[p.Progress]
       /\ progressMaps'[p.Progress][t] =
            [C9_EntryBefore(m, t) EXCEPT !.Done = C9_EntryBefore(m, t).Done + n]
  /\ (last'.op = "AddTableProgress" /\ Running(p)) =>
       /\ t \in DOMAIN progressMaps'[p.Progress]
       /\ progressMaps'[p.Progress][t] =
            IF t \in DOMAIN m THEN [m[t] EXCEPT !.Total = n] ELSE NewTableProgress(t, n)
  /\ (last'.op = "UpdatePartitionProgress" /\ Running(p) /\ t \in DOMAIN m) =>
       LET e == progressMaps'[p.Progress][t] IN
       /\ [e EXCEPT !.PartitionsProgress = EmptyMap]
            = [m[t] EXCEPT !.PartitionsProgress = EmptyMap]
       /\ x \in DOMAIN e.PartitionsProgress
       /\ e.PartitionsProgress[x] =
            [C9_PartBefore(m[t].PartitionsProgress, x) EXCEPT
               !.Done = C9_PartBefore(m[t].PartitionsProgress, x).Done + n]
  /\ (last'.op = "AddPartitionProgress" /\ Running(p) /\ t \in DOMAIN m) =>
       LET e == progressMaps'[p.Progress][t] IN
       /\ [e EXCEPT !.PartitionsProgress = EmptyMap]
            = [m[t] EXCEPT !.PartitionsProgress = EmptyMap]
       /\ x \in DOMAIN e.PartitionsProgress
       /\ e.PartitionsProgress[x] =
            IF x \in DOMAIN m[t].PartitionsProgress
            THEN [m[t].PartitionsProgress[x] EXCEPT !.Total = n]
            ELSE NewPartitionProgress(x, n)
  /\ \A c \in DOMAIN procs :
       (/\ Running(procs[c])
        /\ c \in DOMAIN procs'
        /\ procs'[c].Progress = procs[c].Progress
        /\ ~(last'.op \in ProgressOps /\ p = procs[c]))
         => progressMaps'[procs[c].Progress] = progressMaps[procs[c].Progress]

C9_ProgressAccumulates == [][C9_Step]_vars

C9_Witness ==
  /\ last.op = "AddTableProgress"
  /\ last.hadTable
  /\ Running(last.was)
  /\ \E t \in DOMAIN ProgressOf(State, last.was) :
       LET e == ProgressOf(State, last.was)[t] IN
       /\ t = last.tbl
       /\ e.Done = 2
       /\ e.Total = last.n
       /\ \E x \in DOMAIN e.PartitionsProgress : e.PartitionsProgress[x].Done = 2

\* C10: a progress operation whose pid is not registered in byQueryPid changes
\* nothing in the process list, and a partition operation for a table that
\* has no entry in the progress of the query its pid is registered to changes
\* nothing either.
C10_Step ==
  LET pid == last'.pid
      t == last'.tbl
  IN
  /\ (last'.op \in ProgressOps /\ pid \notin DOMAIN byQueryPid)
       => UNCHANGED <<procs, byQueryPid, contexts, progressMaps>>
  /\ (/\ last'.op \in PartitionOps
      /\ pid \in DOMAIN byQueryPid
      /\ \/ byQueryPid[pid] \notin DOMAIN procs
         \/ t \notin DOMAIN ProgressOf(State, procs[byQueryPid[pid]]))
       => UNCHANGED <<procs, byQueryPid, contexts, progressMaps>>

C10_UnknownPidOrTableChangesNothing == [][C10_Step]_vars

C10_Witness ==
  /\ last.op = "UpdateTableProgress"
  /\ last.pid \notin DOMAIN byQueryPid
  /\ \E c \in DOMAIN procs :
       /\ Running(procs[c])
       /\ ProgressOf(State, procs[c]) # EmptyMap

\* C7: under any interleaving of concurrent callers every operation runs as
\* one step.  The mutex has one writer or readers only, and a thread is in a
\* body exactly when it holds the mutex; whenever no writer holds the mutex,
\* and so whenever an operation starts or Processes() reads, the state is the
\* one the operations that returned make when run one after the other; a
\* writer that reaches its return leaves the state and returns the outcome of
\* its operation run as one step after them; and Processes() returns the
\* processes of that serial state.
InBody(t) == threads[t].pc \notin {"idle", "Lock", "RLock"}

C7_OperationsAreAtomic ==
  /\ mu.w # Nil => mu.r = {}
  /\ \A t \in Threads :
       /\ (InBody(t) /\ threads[t].op # "Processes") <=> mu.w = t
       /\ (InBody(t) /\ threads[t].op = "Processes") <=> t \in mu.r
  /\ mu.w = Nil => Shared(State) = serial
  /\ \A t \in Threads :
       /\ threads[t].pc = "Unlock" =>
            LET r == Atomic(serial, threads[t]) IN
            /\ Shared(State) = Shared(r)
            /\ threads[t].ret = r.ret
            /\ threads[t].ctx = r.ctx
       /\ threads[t].pc = "RUnlock" => threads[t].result \in Processes(serial)

\* a BeginQuery that has written the command and the pid of its process and
\* not yet its Kill, its Progress and byQueryPid, while another thread has
\* called an operation and is kept at its Lock() or RLock()
C7_Witness ==
  \E t, u \in Threads :
    /\ threads[t].pc = "bq5"
    /\ Shared(State) # serial
    /\ serial.contexts # EmptyMap
    /\ threads[u].pc \in {"Lock", "RLock"}

\* C11: EndQuery(ctx) for the query the connection is running (the session
\* and the pid of ctx are those of the process) cancels the context that
\* BeginQuery returned for that query: the process is left sleeping and
\* ctx.Err() is not nil.
C11_EndQueryCancelsQueryContext ==
  /\ (last.op = "BeginQuery" /\ last.ret = "ok")
       => procs[last.conn].Kill = last.ctx
  /\ (last.op = "EndQuery" /\ Running(last.was) /\ last.was.QueryPid = last.pid)
       => /\ last.ret = "ok"
          /\ last.was.Kill # Nil
          /\ Err(contexts, last.was.Kill)
          /\ procs[last.conn].Command = ProcessCommandSleep

C11_Witness ==
  /\ last.op = "EndQuery"
  /\ Running(last.was)
  /\ last.was.QueryPid = last.pid
  /\ last.was.Kill # Nil
  /\ Err(contexts, last.was.Kill)
  /\ procs[last.conn].Command = ProcessCommandSleep
  /\ procs[last.conn].Kill = Nil

\* C30: after any sequence of operations, byQueryPid maps pid to c exactly when
\* procs holds connection c with the command query and the query pid pid: no
\* entry is stale and no running query lacks its entry.
C30_ByQueryPidMatchesProcs ==
  \A pid \in Pids, c \in Conns :
    (pid \in DOMAIN byQueryPid /\ byQueryPid[pid] = c)
      <=> (c \in DOMAIN procs /\ Running(procs[c]) /\ procs[c].QueryPid = pid)

\* ------------------------------------------------------- claims on GroupBy
Returned(i) == gb.returned[i]
Calls12 == DOMAIN gb.returned
IsGrouping == gb.iter.type = "groupByGroupingIter"
IsError(o) == o.err \notin {"", EOF}

\* C12: for both GroupBy iterators, once Next has returned io.EOF every later
\* call of Next returns io.EOF.
C12_EndStaysEnd ==
  \A i, j \in Calls12 :
    (i < j /\ Returned(i).err = EOF) => Returned(j).err = EOF

\* both iterators: a row, then io.EOF twice
C12_Witness ==
  /\ Len(gb.returned) >= 3
  /\ Returned(1).err = ""
  /\ Returned(Len(gb.returned) - 1).err = EOF
  /\ Returned(Len(gb.returned)).err = EOF

C12_WitnessGrouping == C12_Witness /\ IsGrouping

\* C13: for both GroupBy iterators, once Next has returned an error every
\* later call of Next returns that same error, never io.EOF or a row.
C13_ErrorStaysError ==
  \A i, j \in Calls12 :
    (i < j /\ IsError(Returned(i))) => Returned(j).err = Returned(i).err

\* C14: over a child that has no rows and ends with io.EOF, with a context
\* that is not cancelled, the iterator of a node without group-by expressions
\* returns one row and then io.EOF, and the iterator of a node with a group-by
\* expression returns io.EOF at once.
C14_EmptyInput ==
  (gb.child.rows = <<>> /\ gb.child.end = EOF /\ ~gb.ctx.done)
    => IF Len(gb.groupByExprs) # 0
       THEN \A i \in Calls12 : Returned(i).err = EOF
       ELSE /\ Len(gb.returned) >= 1 =>
                 Returned(1) = [row |-> <<NULL, 0>>, err |-> "", late |-> FALSE]
            /\ \A i \in Calls12 : i >= 2 => Returned(i).err = EOF

C14_Witness ==
  /\ gb.child.rows = <<>>
  /\ gb.child.end = EOF
  /\ ~gb.ctx.done
  /\ Len(gb.groupByExprs) = 0
  /\ Len(gb.returned) = 2
  /\ Returned(1).row = <<NULL, 0>>
  /\ Returned(2).err = EOF

\* the run of the grouping iterator is complete and had no error: every call
\* of Next returned a row or io.EOF, and one returned io.EOF
CompleteGrouping ==
  /\ IsGrouping
  /\ \A i \in Calls12 : ~IsError(Returned(i))
  /\ \E i \in Calls12 : Returned(i).err = EOF

\* the values of the group-by expression on the rows of the child
KeyValues == [k \in DOMAIN gb.child.rows |-> gb.child.rows[k].a]

\* the distinct elements of a sequence, in the order they first appear in it
RECURSIVE FirstAppearance(_)
FirstAppearance(q) ==
  IF q = <<>> THEN <<>>
  ELSE LET front == FirstAppearance(SubSeq(q, 1, Len(q) - 1))
           x == q[Len(q)]
       IN IF \E k \in DOMAIN front : front[k] = x THEN front ELSE Append(front, x)

\* the rows the calls of Next returned
Emitted ==
  LET n == Cardinality({i \in Calls12 : Returned(i).err = ""})
  IN [i \in 1..n |-> Returned(i).row]

\* C15: the grouping iterator returns one row for every distinct value of the
\* group-by expression in the input, in the order in which the values first
\* appear in the rows of the child.
C15_OneRowPerKeyInFirstAppearanceOrder ==
  CompleteGrouping
    => [i \in DOMAIN Emitted |-> Emitted[i][1]] = FirstAppearance(KeyValues)

\* C16: rows whose group-by values differ are never aggregated into one
\* group: the count of a row that Next returned is not more than the number
\* of rows of the child that have the group-by value of that row.
C16_DifferentValuesDifferentGroups ==
  (IsGrouping /\ \A i \in Calls12 : ~IsError(Returned(i)))
    => \A i \in DOMAIN Emitted :
         Emitted[i][2] <= Cardinality({k \in DOMAIN KeyValues : KeyValues[k] = Emitted[i][1]})

\* C17: when the grouping iterator is closed, every history cache it got from
\* the memory manager has been disposed.
C17_CloseDisposesCache ==
  (IsGrouping /\ gb.closed # <<>>)
    => \A c \in DOMAIN gb.caches : gb.caches[c].disposed

C19_CancelledNextReturnsError ==
  \A i \in Calls12 :
    (Returned(i).late /\ Returned(i).err \in {"", EOF, ErrCancelled})
      => Returned(i).err = ErrCancelled

\* The positions of the EXPLODEs (bare or directly under an alias) of a
\* projection list, and the Project a run starts from when nothing below it
\* holds an EXPLODE.
ExplodesOf(exprs) == {i \in 1..Len(exprs) : IsExplode(exprs[i])}
FirstExplode(exprs) == CHOOSE i \in ExplodesOf(exprs) : \A j \in ExplodesOf(exprs) : i <= j
RanOnManyExplodes ==
  /\ rg.done
  /\ rg.plan.kind = "Project"
  /\ Cardinality(ExplodesOf(rg.plan.Projections)) > 1
  /\ rg.plan.Child.kind = "Project" => ExplodesOf(rg.plan.Child.Projections) = {}

\* C20 (as stated): resolveGenerators fails with the multiple-generators error
\* for every Project whose projection list holds more than one EXPLODE,
\* wherever the EXPLODEs are.
C20_ManyExplodesIsMultipleGenerators ==
  RanOnManyExplodes => rg.err = errMultipleGenerators

\* C20 (amended): resolveGenerators fails for every Project whose projection
\* list holds more than one EXPLODE, wherever the EXPLODEs are, and returns no
\* node: with the multiple-generators error when the argument of the first
\* EXPLODE is array-typed, with the explode-not-array error when it is not.
C20_ManyExplodesFails ==
  RanOnManyExplodes =>
    /\ rg.node = NoNode
    /\ rg.err = IF IsArray(TypeOf(rg.plan.Projections[FirstExplode(rg.plan.Projections)]))
                THEN errMultipleGenerators
                ELSE errExplodeNotArray

\* a run on a Project with two EXPLODEs, none of them at the first position and
\* the second under an alias, failed with the multiple-generators error
C20_Witness ==
  /\ RanOnManyExplodes
  /\ rg.err = errMultipleGenerators
  /\ ExplodesOf(rg.plan.Projections) = {2, 3}
  /\ rg.plan.Projections[3].kind = "Alias"

\* the Project a run starts from holds one EXPLODE, at position k, nothing below
\* it holds an EXPLODE, and the argument of the EXPLODE is array-typed (or not)
RanOnOneExplode(k, array) ==
  /\ rg.done
  /\ rg.plan.kind = "Project"
  /\ ExplodesOf(rg.plan.Projections) = {k}
  /\ IsArray(TypeOf(rg.plan.Projections[k])) = array
  /\ rg.plan.Child.kind = "Project" => ExplodesOf(rg.plan.Child.Projections) = {}

\* C21: for a Project with one EXPLODE, at index k and with an array-typed
\* argument, resolveGenerators returns Generate(Project(P', child),
\* GetField(k, ...)), where P' is the projection list with the Generate
\* expression at k (under the alias of the EXPLODE if it had one) and every
\* other projection in its place, and child is the child of the Project.
C21_OneExplodeIsLifted ==
  \A k \in 1..MaxProj :
    RanOnOneExplode(k, TRUE) =>
      LET P == rg.plan.Projections
          e == P[k]
          expected == IF e.kind = "Alias"
                      THEN [kind |-> "Alias", Name |-> e.Name,
                            Child |-> [kind |-> "Generate", Child |-> e.Child.Child]]
                      ELSE [kind |-> "Generate", Child |-> e.Child]
      IN /\ rg.err = ""
         /\ rg.node.kind = "Generate"
         /\ rg.node.Column.kind = "GetField"
         /\ rg.node.Column.idx = k - 1
         /\ rg.node.Child.kind = "Project"
         /\ rg.node.Child.Child = rg.plan.Child
         /\ Len(rg.node.Child.Projections) = Len(P)
         /\ \A i \in 1..Len(P) :
              rg.node.Child.Projections[i] = IF i = k THEN expected ELSE P[i]

\* a run on a Project of three projections with an aliased EXPLODE of an
\* array in the middle returned a Generate node
C21_Witness ==
  /\ RanOnOneExplode(2, TRUE)
  /\ Len(rg.plan.Projections) = 3
  /\ rg.plan.Projections[2].kind = "Alias"
  /\ rg.node.kind = "Generate"

\* C22: for a Project whose one EXPLODE has an argument that is not
\* array-typed, resolveGenerators fails with the explode-not-array error,
\* returns no node and writes no Generate expression into the projection
\* list.
C22_ExplodeNotArray ==
  \A k \in 1..MaxProj :
    (/\ rg.done
     /\ rg.plan.kind = "Project"
     /\ ExplodesOf(rg.plan.Projections) = {k}
     /\ TypeOf(rg.plan.Projections[k]) # ArrayType
     /\ rg.plan.Child.kind = "Project" => ExplodesOf(rg.plan.Child.Projections) = {})
    => /\ rg.err = errExplodeNotArray
       /\ rg.node = NoNode
       /\ rg.input.Projections = rg.plan.Projections

\* a run on a Project with one aliased EXPLODE of a BIGINT column, after a
\* column, failed with the explode-not-array error
C22_Witness ==
  /\ rg.done
  /\ rg.plan.kind = "Project"
  /\ ExplodesOf(rg.plan.Projections) = {2}
  /\ rg.plan.Projections[2] = NewAlias("x", Explode(Column(OtherType)))
  /\ rg.plan.Child.kind = "Table"
  /\ rg.err = errExplodeNotArray

\* C23: after resolveGenerators returns, with a node or with an error, the
\* plan given to it is as it was before the call; the projection lists of its
\* Project nodes still hold the EXPLODE expressions.
C23_InputUnchanged == rg.done => rg.input = rg.plan

\* C24: for every plan on which resolveGenerators succeeds, resolveGenerators
\* on the plan it returned succeeds and returns that plan: no error and no
\* second Generate node.
C24_Idempotent ==
  rg.again.done => /\ rg.again.err = ""
                   /\ rg.again.node = rg.node

\* the rule ran again on a plan with a Generate node it had made from a
\* Project with an EXPLODE over a Project with an EXPLODE
C24_Witness ==
  /\ rg.again.done
  /\ rg.node.kind = "Generate"
  /\ rg.node.Child.Child.kind = "Generate"

\* ------------------------------------------------- claims on nodes' methods
\* C25: for GroupBy, ChangeReplicationSource, StartReplica, StopReplica,
\* DateAdd, DateSub and UnixTimestamp, WithChildren on the children of the
\* node succeeds and returns a node equal to it; for GroupBy,
\* WithExpressions on the expressions of the node does too, and
\* WithExpressions makes the first |SelectedExprs| expressions the selected
\* expressions and the others the group-by expressions.
C25_RebuiltFromOwnPartsIsEqual ==
  /\ (nd.op = "WithChildren" /\ nd.args = ChildrenOf(nd.node))
       => nd.ret = [node |-> nd.node, err |-> ""]
  /\ (nd.op = "WithExpressions" /\ nd.args = Expressions(nd.node))
       => nd.ret = [node |-> nd.node, err |-> ""]
  /\ (nd.op = "WithExpressions" /\ nd.ret.err = "")
       => /\ nd.ret.node.SelectedExprs = SubSeq(nd.args, 1, Len(nd.node.SelectedExprs))
          /\ nd.ret.node.GroupByExprs =
               SubSeq(nd.args, Len(nd.node.SelectedExprs) + 1, Len(nd.args))
          /\ nd.ret.node.Child = nd.node.Child

\* WithExpressions returned a GroupBy equal to the one it was called on, whose
\* selected and group-by expressions differ
C25_Witness ==
  /\ nd.op = "WithExpressions"
  /\ nd.args = Expressions(nd.node)
  /\ nd.node.SelectedExprs = <<GetField("s"), Alias(Count)>>
  /\ nd.node.GroupByExprs = <<GetField("g")>>
  /\ nd.ret.node = nd.node

\* WithChildren returned a DateAdd equal to the one it was called on
C25_WitnessDateAdd ==
  /\ nd.op = "WithChildren"
  /\ nd.node.kind = "DateAdd"
  /\ nd.args = ChildrenOf(nd.node)
  /\ nd.ret.node = nd.node

\* C26: with the wrong number of arguments WithChildren and WithExpressions
\* return the invalid-children-number error and no node: WithChildren of
\* GroupBy takes one child, WithExpressions of GroupBy takes |SelectedExprs| +
\* |GroupByExprs| expressions, WithChildren of the replication nodes takes no
\* child.
C26_WrongNumberIsError ==
  LET expected ==
        IF nd.op = "WithExpressions"
        THEN Len(nd.node.SelectedExprs) + Len(nd.node.GroupByExprs)
        ELSE IF nd.node.kind = "GroupBy" THEN 1 ELSE 0
  IN (/\ nd.op \in {"WithChildren", "WithExpressions"}
      /\ nd.node.kind \in {"GroupBy"} \cup ReplicationKinds
      /\ Len(nd.args) # expected)
     => nd.ret = [node |-> NoNode, err |-> ErrInvalidChildrenNumber]

\* WithChildren of a GroupBy was called with two children, WithChildren of
\* CHANGE REPLICATION SOURCE with one
C26_Witness ==
  /\ nd.op = "WithChildren"
  /\ nd.node.kind = "GroupBy"
  /\ Len(nd.args) = 2
  /\ nd.ret.err = ErrInvalidChildrenNumber

C26_WitnessReplication ==
  /\ nd.op = "WithChildren"
  /\ nd.node.kind = "ChangeReplicationSource"
  /\ Len(nd.args) = 1
  /\ nd.ret.err = ErrInvalidChildrenNumber

\* C27: the nodes of CHANGE REPLICATION SOURCE, START REPLICA and STOP REPLICA
\* are resolved, and RowIter of each returns no iterator and the error
\* 'replication statements not supported', whatever the context and the row.
C27_ReplicationNotSupported ==
  /\ nd.op = "Resolved" => nd.ret = TRUE
  /\ nd.op = "RowIter" => /\ nd.ret.err = errReplicationNotSupported
                          /\ nd.ret.iter = Nil

\* RowIter of STOP REPLICA was called with a cancelled context and a row
C27_Witness ==
  /\ nd.op = "RowIter"
  /\ nd.node.kind = "StopReplica"
  /\ nd.args = <<TRUE, <<1>>>>
  /\ nd.ret.err = errReplicationNotSupported

\* ------------------------------------------- claims on statements
\* C28: after LOCK TABLES over a list of tables and UNLOCK TABLES by the same
\* connection, both without error, every lockable table of the list has had
\* one call of Lock, in the mode the list declares and none in the other
\* mode, and one call of Unlock; the tables that are not lockable are skipped
\* and the statement has no error for them.
C28_LockedOnceUnlockedOnce ==
  /\ (lt.step = "unlocked" /\ lt.err = "")
       => \A i \in 1..Len(lt.list) :
            LET l == lt.list[i] IN
            l.table \in DOMAIN lt.tables
              => lt.tables[l.table] =
                   [readLocks |-> IF l.write THEN 0 ELSE 1,
                    writeLocks |-> IF l.write THEN 1 ELSE 0,
                    unlocks |-> 1]
  /\ (lt.step \in {"locked", "unlocked"} /\ lt.failing = {}) => lt.err = ""

\* LOCK TABLES t1 READ, t2 WRITE, t3 READ with t3 not lockable, and UNLOCK
\* TABLES after another connection ran UNLOCK TABLES
C28_Witness ==
  /\ lt.step = "unlocked"
  /\ lt.err = ""
  /\ lt.others
  /\ lt.list = <<[table |-> "t1", write |-> FALSE], [table |-> "t2", write |-> TRUE],
                 [table |-> "t3", write |-> FALSE]>>
  /\ DOMAIN lt.tables = {"t1", "t2"}
  /\ lt.tables["t2"].writeLocks = 1
  /\ lt.tables["t2"].unlocks = 1

\* C29: a table read inside nested CALLs uses the snapshot of its own AS OF
\* clause if it has one, else that of the nearest enclosing CALL that has one,
\* else the current data; the AS OF of an outer CALL never replaces the one of
\* a statement inside it.
C29_NearestAsOfWins ==
  co.step = "read" =>
    LET explicit == {i \in 1..Len(co.clauses) : co.clauses[i] # NoAsOf} IN
    co.used = IF explicit = {} THEN Current
              ELSE co.clauses[CHOOSE i \in explicit : \A j \in explicit : j <= i]

\* CALL p1a() AS OF '2019-01-03', where p1a is CALL p2() AS OF '2019-01-01' and
\* p2 is SELECT * FROM myhistorytable, read the snapshot of 2019-01-01
C29_Witness ==
  /\ co.step = "read"
  /\ co.clauses = <<"2019-01-03", "2019-01-01", NoAsOf>>
  /\ co.used = "2019-01-01"

\* ------------------------------------------- further claims on the process list
\* C31: every context that a successful BeginQuery returned on a connection
\* and that no EndQuery has ended is cancelled by a later Kill or
\* RemoveConnection of that connection, whatever ran on the connection in
\* between.
C31_Step ==
  last'.op \in {"Kill", "RemoveConnection"}
    => \A k \in DOMAIN open : open[k].conn = last'.conn => Err(contexts', k)

C31_OpenContextsStayCancellable == [][C31_Step]_vars

\* C32: whenever EndQuery finds the process of its connection with the query
\* pid of its context, the Kill of that process is not nil, so EndQuery never
\* calls a nil function.
C32_EndQueryKillIsNotNil ==
  (/\ last.op = "EndQuery"
   /\ last.was # NoProcess
   /\ last.was.QueryPid = last.pid)
    => /\ last.was.Kill # Nil
       /\ last.ret # "panic"

\* C33: whenever AddTableProgress or UpdateTableProgress resolves its pid
\* through byQueryPid to a process, the Progress map of that process is not
\* nil, so no progress operation assigns to an entry of a nil map.
C33_ProgressMapIsNotNil ==
  (/\ last.op \in {"AddTableProgress", "UpdateTableProgress"}
   /\ last.was # NoProcess)
    => /\ last.was.Progress # Nil
       /\ last.ret # "panic"

\* C34: a BeginQuery that returns an error, because the connection is not
\* registered or because the pid is already used, returns a nil context and
\* leaves procs and byQueryPid as they were.
C34_Step ==
  (last'.op = "BeginQuery" /\ last'.ret # "ok")
    => /\ last'.ret \in {"ErrNotRegistered", "ErrPidAlreadyUsed"}
       /\ last'.ctx = Nil
       /\ UNCHANGED <<procs, byQueryPid, contexts>>

C34_FailedBeginQueryChangesNothing == [][C34_Step]_vars

\* a BeginQuery that failed for its pid on a connection that is not running a
\* query, and one that failed for its connection while another runs a query
C34_Witness ==
  /\ last.op = "BeginQuery"
  /\ last.ret = "ErrPidAlreadyUsed"
  /\ last.was.Command # ProcessCommandQuery
  /\ last.ctx = Nil

C34_WitnessNotRegistered ==
  /\ last.op = "BeginQuery"
  /\ last.ret = "ErrNotRegistered"
  /\ \E c \in DOMAIN procs : procs[c].Command = ProcessCommandQuery

\* C35: the command of every process is connect, sleep or query, and of every
\* process either the command is query, the Kill is not nil and the Progress
\* is not nil, or none of the three holds.
C35_QueryKillProgressTogether ==
  \A c \in DOMAIN procs :
    /\ procs[c].Command \in
         {ProcessCommandConnect, ProcessCommandSleep, ProcessCommandQuery}
    /\ Running(procs[c]) <=> procs[c].Kill # Nil
    /\ Running(procs[c]) <=> procs[c].Progress # Nil

\* one connection runs a query while the query of the other has just ended
C35_Witness ==
  /\ last.op = "EndQuery"
  /\ last.ret = "ok"
  /\ Running(last.was)
  /\ procs[last.conn].Command = ProcessCommandSleep
  /\ \E c \in DOMAIN procs :
       /\ Running(procs[c])
       /\ procs[c].Kill # Nil
       /\ procs[c].Progress # Nil

\* C36: Kill(c) leaves procs, byQueryPid and every Progress map as they were,
\* so the killed process keeps its command, query, pid, Kill and progress and
\* its pid stays registered; on a connection that is not registered or that
\* runs no query it changes nothing at all; and a second Kill(c) right after
\* it would change nothing.
C36_Step ==
  last'.op = "Kill"
    => /\ UNCHANGED <<procs, byQueryPid, progressMaps>>
       /\ last'.ret = "ok"
       /\ (Running(last'.was) /\ last'.was.QueryPid \in DOMAIN byQueryPid)
            => last'.was.QueryPid \in DOMAIN byQueryPid'
       /\ (last'.was = NoProcess \/ ~Running(last'.was)) => UNCHANGED contexts
       /\ LET after == [procs |-> procs', byQueryPid |-> byQueryPid',
                        contexts |-> contexts', progressMaps |-> progressMaps',
                        snap |-> <<>>]
          IN Kill(after, last'.conn) = Ret(after, "ok")

C36_KillChangesNothingInTheList == [][C36_Step]_vars

\* a Kill of a connection whose query is registered, with the process and the
\* registration in place after it
C36_Witness ==
  /\ last.op = "Kill"
  /\ Running(last.was)
  /\ last.was.QueryPid # 0
  /\ procs[last.conn] = last.was
  /\ last.was.QueryPid \in DOMAIN byQueryPid
  /\ byQueryPid[last.was.QueryPid] = last.conn
  /\ Err(contexts, last.was.Kill)

\* C37: a progress operation called with pid p changes the Progress of the
\* process that is running query p and nothing else: procs, and so the
\* command, query, pid and Kill of every process and the set of connections,
\* and byQueryPid are unchanged, and so is every other Progress map.
C37_Step ==
  last'.op \in ProgressOps
    => /\ UNCHANGED <<procs, byQueryPid, contexts>>
       /\ DOMAIN progressMaps' = DOMAIN progressMaps
       /\ \A a \in DOMAIN progressMaps :
            progressMaps'[a] # progressMaps[a]
              => \E c \in DOMAIN procs :
                   /\ Running(procs[c])
                   /\ procs[c].QueryPid = last'.pid
                   /\ procs[c].Progress = a

C37_ProgressOnlyOfItsQuery == [][C37_Step]_vars

\* ------------------------------------------------- further claims on GroupBy
\* the rows the iterator has taken from its child
Taken38 == SubSeq(gb.child.rows, 1, gb.child.pos)

\* the rows taken that have the group-by value v
GroupOf38(v) == {k \in DOMAIN Taken38 : Taken38[k].a = v}

\* C38: every row that Next returned holds, for the selected column, its value
\* on the last row of the group in the order of the child (NULL when a node
\* without group-by expressions read no row), and for the count one update
\* for every row of the group: the rows of the child that have its group-by
\* value, or all the rows when the node has no group-by expression.
C38_LastValueAndOneUpdatePerRow ==
  \A i \in Calls12 :
    Returned(i).err = ""
      => IF IsGrouping
         THEN \E k \in DOMAIN Taken38 :
                /\ \A j \in GroupOf38(Taken38[k].a) : j <= k
                /\ Returned(i).row[1] = Taken38[k].a
                /\ Returned(i).row[2] = Cardinality(GroupOf38(Taken38[k].a))
         ELSE /\ Returned(i).row[1] =
                   IF Taken38 = <<>> THEN NULL ELSE Taken38[Len(Taken38)].a
              /\ Returned(i).row[2] = Len(Taken38)

\* C38 where no two rows taken have different group-by values of one
\* checksum and no call of Next returned an error: the rows returned are as
\* C38 states.
C38_WithoutCollisionAndError ==
  (/\ \A j, k \in DOMAIN Taken38 :
        Checksum(Taken38[j].a) = Checksum(Taken38[k].a) => Taken38[j].a = Taken38[k].a
   /\ \A i \in Calls12 : ~IsError(Returned(i)))
    => C38_LastValueAndOneUpdatePerRow

\* a node without group-by expressions returned the value of the last of two
\* different rows and a count of two
C38_WitnessLastRow ==
  /\ ~IsGrouping
  /\ Len(Taken38) = 2
  /\ Taken38[1].a # Taken38[2].a
  /\ \E i \in Calls12 : Returned(i).row = <<Taken38[2].a, 2>>

====
